---- MODULE Spec2Model ----
(***************************************************************************)
(* Model of pzspec's test runner (src/pzspec/test_runner.py): the context  *)
(* tree, the selection engine (file:line and name pattern) and the         *)
(* execution engine with its before/after hooks; and of the libraries a    *)
(* test body uses: mocks (mock.py, zig_ffi.py), factories (factory.py) and *)
(* snapshots (snapshot.py).                                                *)
(***************************************************************************)
EXTENDS Integers, Sequences, FiniteSets, TLC

(***************************************************************************)
(* Bounds of the model.                                                    *)
(***************************************************************************)
\* contexts below the root / tests / hooks per list / raising callables (execution)
NCtx == 3
NTests == 3
NHooks == 2
MaxRaise == 2
\* contexts below the root / tests / source lines of the selection specifications
SelCtx == 2
SelTests == 3
MaxLine == 4
\* raising callables of the selection specification
SelRaise == 1
\* calls of run on one TestRunner
MaxRuns == 2
\* contexts below the root / tests / hooks of the registration specification
RegCtx == 3
RegTests == 2
RegHooks == 1

VARIABLES
    children,           \* Context.children: context -> sequence of contexts
    tests,              \* Context.tests: context -> sequence of test cases
    parent,             \* Context.parent (the root maps to itself: None)
    ctxName,            \* Context.name
    ctxFile,            \* Context.source_file
    ctxLine,            \* Context.source_line
    testName,           \* TestCase.name
    testFile,           \* TestCase.source_file
    testLine,           \* TestCase.source_line
    before_all_hooks,   \* Context.before_all_hooks
    after_all_hooks,    \* Context.after_all_hooks
    before_each_hooks,  \* Context.before_each_hooks
    after_each_hooks,   \* Context.after_each_hooks
    current_context,    \* TestRunner.current_context
    scopes,             \* the describe blocks that are open, the innermost last
    raises,             \* the callables (hooks, test bodies) that raise when called
    results,            \* TestRunner.results
    log,                \* the calls made to hooks and test bodies, in order
    call,               \* the last operation called on the runner, the mocks or the factory,
                        \* its arguments and what it returned
    returned,           \* for each call of run so far: its arguments, its return value
                        \* and get_results() after it
    tags,               \* Context.tags and TestCase.tags, as stored at registration
    declared_tags,      \* the tags arguments of the describe and add_test calls
    _mocks,             \* MockRegistry._mocks: function name -> the MockConfig registered
    mock_contexts,      \* the mock_zig_function contexts entered so far, with their MockConfig
    _functions,         \* ZigLibrary._functions: the names whose library function is cached
    counter,            \* Sequence.counter of each sequence of the factory
    since_reset,        \* the builds of the factory since its last reset_sequences
    _snapshots,         \* SnapshotManager._snapshots: test file -> key -> serialized value
    _snapshot_counters, \* SnapshotManager._snapshot_counters
    _current_test_file, \* SnapshotManager._current_test_file
    _current_test_name, \* SnapshotManager._current_test_name
    _update_snapshots,  \* snapshot._update_snapshots
    snapshot_files,     \* the *.snap.json files of snapshot_dir: file name -> key -> value
    matches             \* the calls of match_snapshot that returned, in order

treeVars == <<children, tests, parent, ctxName, ctxFile, ctxLine,
              testName, testFile, testLine,
              before_all_hooks, after_all_hooks, before_each_hooks, after_each_hooks>>
regVars == <<current_context, scopes>>
tagVars == <<tags, declared_tags>>
mockVars == <<_mocks, mock_contexts, _functions>>
factoryVars == <<counter, since_reset>>
snapshotVars == <<_snapshots, _snapshot_counters, _current_test_file, _current_test_name,
                  _update_snapshots, snapshot_files, matches>>
libVars == <<mockVars, factoryVars, snapshotVars>>
runnerVars == <<treeVars, regVars, raises, results, log, returned, tagVars>>
vars == <<treeVars, regVars, raises, results, log, call, returned, tagVars, libVars>>

\* Python's None
None == "None"
\* a dict with no key
EmptyDict == <<>>

\* no mock registered, no function looked up
NoMocks ==
    /\ _mocks = EmptyDict
    /\ mock_contexts = <<>>
    /\ _functions = {}

\* the sequences of the factory, by the field they fill
SequenceFields == {"id", "code"}

\* a factory that has built nothing
NoBuilds ==
    /\ counter = [f \in SequenceFields |-> 0]
    /\ since_reset = [reset |-> FALSE, builds |-> <<>>]

\* no snapshot manager
NoSnapshots ==
    /\ _snapshots = EmptyDict
    /\ _snapshot_counters = EmptyDict
    /\ _current_test_file = None
    /\ _current_test_name = None
    /\ _update_snapshots = FALSE
    /\ snapshot_files = EmptyDict
    /\ matches = <<>>

\* a test file that uses no mock, factory or snapshot
NoLibraries == NoMocks /\ NoBuilds /\ NoSnapshots

Root == 0
\* Context.parent of the root: None
NoParent == -1
\* None for a source file and for a source line (real lines start at 1)
NoFile == "None"
NoLine == 0

(***************************************************************************)
(* Sequences.                                                              *)
(***************************************************************************)
RECURSIVE FlattenSeq(_)
FlattenSeq(ss) ==
    IF ss = <<>> THEN <<>> ELSE Head(ss) \o FlattenSeq(Tail(ss))

RECURSIVE SetToSeq(_)
\* the numbers of S in increasing order
SetToSeq(S) ==
    IF S = {} THEN <<>>
    ELSE LET m == CHOOSE x \in S : \A y \in S : x <= y
         IN <<m>> \o SetToSeq(S \ {m})

Range(s) == {s[i] : i \in DOMAIN s}

(***************************************************************************)
(* File paths. The working directory is /w; os.path.abspath prefixes it to *)
(* a relative path and os.path.normpath drops "./".                        *)
(***************************************************************************)
normalize_path(path) ==
    CASE path = "t.py" -> "/w/t.py"
      [] path = "./t.py" -> "/w/t.py"
      [] path = "u.py" -> "/w/u.py"
      [] OTHER -> path

(***************************************************************************)
(* The context tree.                                                       *)
(***************************************************************************)
Contexts == DOMAIN children
AllTests == DOMAIN testName

\* mutant: only the context's own tests, its child contexts forgotten
add_own_tests_only(c) == Range(tests[c])

RECURSIVE add_all_tests_in_context(_)
\* the tests of a context and of its descendants
add_all_tests_in_context(c) ==
    Range(tests[c]) \cup
    UNION {add_all_tests_in_context(children[c][i]) : i \in DOMAIN children[c]}

\* the file of a context or test, normalized, or None
ContextFile(c) == IF ctxFile[c] # NoFile THEN normalize_path(ctxFile[c]) ELSE NoFile
TestFile(t) == IF testFile[t] # NoFile THEN normalize_path(testFile[t]) ELSE NoFile

(***************************************************************************)
(* _find_tests_at_line: the location filter.                               *)
(***************************************************************************)
\* collect_tests: acc = [found, matching, all_tests]; all_tests holds <<line, test, context>>
RECURSIVE collect_tests(_, _, _, _)
RECURSIVE collect_children(_, _, _, _, _)
collect_tests(c, target_file, target_line, acc) ==
    IF ContextFile(c) = target_file /\ ctxLine[c] = target_line
    THEN [found |-> TRUE,
          matching |-> acc.matching \cup add_all_tests_in_context(c),
          all_tests |-> acc.all_tests]
    ELSE LET own == SelectSeq(tests[c], LAMBDA t : TestFile(t) = target_file)
             rows == [i \in DOMAIN own |-> <<testLine[own[i]], own[i], c>>]
         IN collect_children(c, 1, target_file, target_line,
                             [acc EXCEPT !.all_tests = acc.all_tests \o rows])

collect_children(c, i, target_file, target_line, acc) ==
    IF i > Len(children[c]) THEN acc
    ELSE LET r == collect_tests(children[c][i], target_file, target_line, acc)
         IN IF r.found THEN r
            ELSE collect_children(c, i + 1, target_file, target_line, r)

\* the sort key of all_tests.sort: x[0] if x[0] else 0
SortKey(row) == IF row[1] # NoLine THEN row[1] ELSE 0

RECURSIVE InsertSorted(_, _)
\* row goes after every row whose key is not greater: the sort is stable
InsertSorted(sorted, row) ==
    IF sorted = <<>> THEN <<row>>
    ELSE IF SortKey(Head(sorted)) <= SortKey(row)
         THEN <<Head(sorted)>> \o InsertSorted(Tail(sorted), row)
         ELSE <<row>> \o sorted

RECURSIVE SortRows(_)
SortRows(rows) ==
    IF rows = <<>> THEN <<>>
    ELSE InsertSorted(SortRows(SubSeq(rows, 1, Len(rows) - 1)), rows[Len(rows)])

RECURSIVE best_test_first_match(_, _, _)
\* mutant: the first test declared at or before the target, the next test's line not looked at
best_test_first_match(all_tests, i, target_line) ==
    IF i > Len(all_tests) THEN 0
    ELSE IF all_tests[i][1] # NoLine /\ all_tests[i][1] <= target_line THEN all_tests[i][2]
    ELSE best_test_first_match(all_tests, i + 1, target_line)

RECURSIVE best_test_from(_, _, _)
\* the loop over the sorted all_tests from index i: the test found, or 0 for None
best_test_from(all_tests, i, target_line) ==
    IF i > Len(all_tests) THEN 0
    ELSE LET line == all_tests[i][1]
         IN IF line = NoLine THEN best_test_from(all_tests, i + 1, target_line)
            ELSE IF line <= target_line
                 THEN IF i + 1 <= Len(all_tests)
                      THEN LET next_line == all_tests[i + 1][1]
                           IN IF next_line # NoLine /\ target_line < next_line
                              THEN all_tests[i][2]
                              ELSE best_test_from(all_tests, i + 1, target_line)
                      ELSE all_tests[i][2]
                 ELSE 0

RECURSIVE innermost_search(_, _, _, _)
RECURSIVE innermost_children(_, _, _, _, _)
\* search of _find_innermost_context_at_line: best = [match, line], match -1 for None
innermost_search(c, target_file, target_line, best) ==
    LET here == IF /\ ContextFile(c) = target_file
                   /\ ctxLine[c] # NoLine
                   /\ ctxLine[c] <= target_line
                   /\ ctxLine[c] > best.line
                THEN [match |-> c, line |-> ctxLine[c]]
                ELSE best
    IN innermost_children(c, 1, target_file, target_line, here)

innermost_children(c, i, target_file, target_line, best) ==
    IF i > Len(children[c]) THEN best
    ELSE innermost_children(c, i + 1, target_file, target_line,
             innermost_search(children[c][i], target_file, target_line, best))

find_innermost_context_at_line(target_file, target_line) ==
    innermost_search(Root, normalize_path(target_file), target_line,
                     [match |-> -1, line |-> -1]).match

find_tests_at_line(file, target_line) ==
    LET target_file == normalize_path(file)
        col == collect_tests(Root, target_file, target_line,
                             [found |-> FALSE, matching |-> {}, all_tests |-> <<>>])
        best_test == best_test_from(SortRows(col.all_tests), 1, target_line)
        innermost == find_innermost_context_at_line(target_file, target_line)
    IN IF col.found THEN col.matching
       ELSE IF best_test # 0 THEN col.matching \cup {best_test}
       ELSE IF innermost # -1 THEN col.matching \cup add_all_tests_in_context(innermost)
       ELSE col.matching

(***************************************************************************)
(* Strings are sequences of characters.                                    *)
(***************************************************************************)
LowerChar(ch) ==
    CASE ch = "A" -> "a" [] ch = "B" -> "b" [] ch = "X" -> "x" [] ch = "Y" -> "y"
      [] ch = "N" -> "n" [] ch = "D" -> "d" [] ch = "O" -> "o" [] ch = "R" -> "r"
      [] ch = "T" -> "t" [] OTHER -> ch

\* str.lower
Lower(s) == [i \in DOMAIN s |-> LowerChar(s[i])]

RECURSIVE LStrip(_)
LStrip(s) == IF s # <<>> /\ Head(s) = " " THEN LStrip(Tail(s)) ELSE s

RECURSIVE RStrip(_)
RStrip(s) ==
    IF s # <<>> /\ s[Len(s)] = " " THEN RStrip(SubSeq(s, 1, Len(s) - 1)) ELSE s

\* str.strip
Strip(s) == RStrip(LStrip(s))

\* sub in s
Contains(s, sub) ==
    \E i \in 0..(Len(s) - Len(sub)) : SubSeq(s, i + 1, i + Len(sub)) = sub

\* s.startswith(pre)
StartsWith(s, pre) == Len(pre) <= Len(s) /\ SubSeq(s, 1, Len(pre)) = pre

\* the first index >= i of s that holds no space (Len(s) + 1 when there is none)
RECURSIVE SkipSpaces(_, _)
SkipSpaces(s, i) ==
    IF i <= Len(s) /\ s[i] = " " THEN SkipSpaces(s, i + 1) ELSE i

\* a match of \s+word\s+ (IGNORECASE) starting at index i of s: the index after it, or 0
MatchAt(s, i, word) ==
    IF i > Len(s) \/ s[i] # " " THEN 0
    ELSE LET j == SkipSpaces(s, i)
             k == j + Len(word)
         IN IF /\ k <= Len(s)
               /\ Lower(SubSeq(s, j, k - 1)) = word
               /\ s[k] = " "
            THEN SkipSpaces(s, k)
            ELSE 0

\* re.split(r'\s+word\s+', s, flags=re.IGNORECASE)
RECURSIVE re_split(_, _)
re_split(s, word) ==
    LET hits == {i \in 1..Len(s) : MatchAt(s, i, word) # 0}
    IN IF hits = {} THEN <<s>>
       ELSE LET i == CHOOSE x \in hits : \A y \in hits : x <= y
            IN <<SubSeq(s, 1, i - 1)>>
               \o re_split(SubSeq(s, MatchAt(s, i, word), Len(s)), word)

(***************************************************************************)
(* Context.full_name and the name of a test in its context.                *)
(***************************************************************************)
RECURSIVE full_name(_)
full_name(c) ==
    IF parent[c] # NoParent /\ ctxName[parent[c]] # <<>>
    THEN full_name(parent[c]) \o <<" ", ">", " ">> \o ctxName[c]
    ELSE ctxName[c]

RECURSIVE depth(_)
\* Context.depth
depth(c) == IF parent[c] = NoParent THEN 0 ELSE depth(parent[c]) + 1

\* f"{context.full_name}::{test.name}" if context.full_name else test.name
full_test_name(c, t) ==
    IF full_name(c) # <<>> THEN full_name(c) \o <<":", ":">> \o testName[t]
    ELSE testName[t]

(***************************************************************************)
(* _parse_filter_pattern and _filter_tests_by_pattern (use_regex=False).   *)
(***************************************************************************)
RECURSIVE parse_filter_pattern_any(_, _)
\* mutant: the parts of an "and" pattern combined with any() instead of all()
parse_filter_pattern_any(pattern0, name) ==
    LET pattern == Strip(pattern0)
        lower_pattern == Lower(pattern)
    IN IF Contains(lower_pattern, <<" ", "a", "n", "d", " ">>)
       THEN LET parts == re_split(pattern, <<"a", "n", "d">>)
            IN \E i \in DOMAIN parts : parse_filter_pattern_any(parts[i], name)
       ELSE IF Contains(lower_pattern, <<" ", "o", "r", " ">>)
       THEN LET parts == re_split(pattern, <<"o", "r">>)
            IN \E i \in DOMAIN parts : parse_filter_pattern_any(parts[i], name)
       ELSE IF StartsWith(lower_pattern, <<"n", "o", "t", " ">>)
       THEN ~parse_filter_pattern_any(Strip(SubSeq(pattern, 5, Len(pattern))), name)
       ELSE Contains(Lower(name), Lower(pattern))

RECURSIVE parse_filter_pattern_or_first(_, _)
\* mutant: the pattern is split on " or " before " and "
parse_filter_pattern_or_first(pattern0, name) ==
    LET pattern == Strip(pattern0)
        lower_pattern == Lower(pattern)
    IN IF Contains(lower_pattern, <<" ", "o", "r", " ">>)
       THEN LET parts == re_split(pattern, <<"o", "r">>)
            IN \E i \in DOMAIN parts : parse_filter_pattern_or_first(parts[i], name)
       ELSE IF Contains(lower_pattern, <<" ", "a", "n", "d", " ">>)
       THEN LET parts == re_split(pattern, <<"a", "n", "d">>)
            IN \A i \in DOMAIN parts : parse_filter_pattern_or_first(parts[i], name)
       ELSE IF StartsWith(lower_pattern, <<"n", "o", "t", " ">>)
       THEN ~parse_filter_pattern_or_first(Strip(SubSeq(pattern, 5, Len(pattern))), name)
       ELSE Contains(Lower(name), Lower(pattern))

RECURSIVE parse_filter_pattern(_, _)
\* the matcher _parse_filter_pattern(pattern) returns, applied to name
parse_filter_pattern(pattern0, name) ==
    LET pattern == Strip(pattern0)
        lower_pattern == Lower(pattern)
    IN IF Contains(lower_pattern, <<" ", "a", "n", "d", " ">>)
       THEN LET parts == re_split(pattern, <<"a", "n", "d">>)
            IN \A i \in DOMAIN parts : parse_filter_pattern(parts[i], name)
       ELSE IF Contains(lower_pattern, <<" ", "o", "r", " ">>)
       THEN LET parts == re_split(pattern, <<"o", "r">>)
            IN \E i \in DOMAIN parts : parse_filter_pattern(parts[i], name)
       ELSE IF StartsWith(lower_pattern, <<"n", "o", "t", " ">>)
       THEN ~parse_filter_pattern(Strip(SubSeq(pattern, 5, Len(pattern))), name)
       ELSE Contains(Lower(name), Lower(pattern))

\* the owner of a test
ContextOf(t) == CHOOSE c \in Contexts : t \in Range(tests[c])

filter_tests_by_pattern(pattern) ==
    {t \in AllTests : parse_filter_pattern(pattern, full_test_name(ContextOf(t), t))}

(***************************************************************************)
(* Hooks and test bodies are callables; a callable of raises raises an     *)
(* Exception whose message is its own.                                     *)
(***************************************************************************)
Hook(kind, c, i) == <<kind, c, i>>
Body(t) == <<"test", t, 0>>
NoCallable == <<"none", 0, 0>>
NoError == [set |-> FALSE, prefix |-> "", msg |-> NoCallable]
\* str(e)
Message(fn) == [set |-> TRUE, prefix |-> "", msg |-> fn]
\* f"after_each failed: {e}"
AfterEachFailed(fn) == [set |-> TRUE, prefix |-> "after_each failed: ", msg |-> fn]

\* one call of a callable, for test t of context c (t = 0: for the context itself)
Event(kind, fn, c, t) ==
    [kind |-> kind, fn |-> fn, ctx |-> c, test |-> t, raised |-> fn \in raises]

RECURSIVE get_before_each_hooks(_)
get_before_each_hooks(c) ==
    (IF parent[c] # NoParent THEN get_before_each_hooks(parent[c]) ELSE <<>>)
    \o before_each_hooks[c]

RECURSIVE get_after_each_hooks_parent_first(_)
\* mutant: the ancestors' after_each hooks before the context's own
get_after_each_hooks_parent_first(c) ==
    (IF parent[c] # NoParent THEN get_after_each_hooks_parent_first(parent[c]) ELSE <<>>)
    \o after_each_hooks[c]

RECURSIVE get_after_each_hooks(_)
get_after_each_hooks(c) ==
    after_each_hooks[c]
    \o (IF parent[c] # NoParent THEN get_after_each_hooks(parent[c]) ELSE <<>>)

(***************************************************************************)
(* _count_tests and _run_context. A filter set is [active, ids]: active is *)
(* FALSE for None.                                                         *)
(***************************************************************************)
NoFilter == [active |-> FALSE, ids |-> {}]
FilterOf(ids) == [active |-> TRUE, ids |-> ids]

RECURSIVE count_tests_unfiltered(_, _)
\* mutant: the filter is not looked at, every registered test counts
count_tests_unfiltered(c, filter_set) ==
    LET RECURSIVE sum(_)
        sum(i) == IF i > Len(children[c]) THEN 0
                  ELSE count_tests_unfiltered(children[c][i], filter_set) + sum(i + 1)
    IN Len(tests[c]) + sum(1)

RECURSIVE count_tests(_, _)
count_tests(c, filter_set) ==
    LET own == IF filter_set.active
               THEN Cardinality({i \in DOMAIN tests[c] : tests[c][i] \in filter_set.ids})
               ELSE Len(tests[c])
        RECURSIVE sum(_)
        sum(i) == IF i > Len(children[c]) THEN 0
                  ELSE count_tests(children[c][i], filter_set) + sum(i + 1)
    IN own + sum(1)

RECURSIVE call_before_each_no_stop(_, _, _, _)
\* mutant: each hook in a try of its own, the first error kept, the later hooks still called
call_before_each_no_stop(hooks, i, c, t) ==
    IF i > Len(hooks) THEN [raised |-> FALSE, error |-> NoError, log |-> <<>>]
    ELSE LET rest == call_before_each_no_stop(hooks, i + 1, c, t)
         IN [raised |-> hooks[i] \in raises \/ rest.raised,
             error |-> IF hooks[i] \in raises THEN Message(hooks[i]) ELSE rest.error,
             log |-> <<Event("before_each", hooks[i], c, t)>> \o rest.log]

RECURSIVE call_before_each(_, _, _, _)
\* "for hook in before_hooks: hook()" from hook i on: it ends at the first that raises
call_before_each(hooks, i, c, t) ==
    IF i > Len(hooks) THEN [raised |-> FALSE, error |-> NoError, log |-> <<>>]
    ELSE IF hooks[i] \in raises
         THEN [raised |-> TRUE, error |-> Message(hooks[i]),
               log |-> <<Event("before_each", hooks[i], c, t)>>]
         ELSE LET rest == call_before_each(hooks, i + 1, c, t)
              IN [rest EXCEPT !.log = <<Event("before_each", hooks[i], c, t)>> \o rest.log]

RECURSIVE call_after_each_last_wins(_, _, _, _, _)
\* mutant: "if test_passed" forgotten, every after_each failure overwrites the outcome
call_after_each_last_wins(hooks, i, c, t, st) ==
    IF i > Len(hooks) THEN st
    ELSE LET flip == hooks[i] \in raises
         IN call_after_each_last_wins(hooks, i + 1, c, t,
                [test_passed |-> IF flip THEN FALSE ELSE st.test_passed,
                 error_msg |-> IF flip THEN AfterEachFailed(hooks[i]) ELSE st.error_msg,
                 log |-> Append(st.log, Event("after_each", hooks[i], c, t))])

RECURSIVE call_after_each_stops(_, _, _, _, _)
\* mutant: one try around the whole after_each loop, which ends at the first hook that raises
call_after_each_stops(hooks, i, c, t, st) ==
    IF i > Len(hooks) THEN st
    ELSE LET flip == hooks[i] \in raises /\ st.test_passed
             now == [test_passed |-> IF flip THEN FALSE ELSE st.test_passed,
                     error_msg |-> IF flip THEN AfterEachFailed(hooks[i]) ELSE st.error_msg,
                     log |-> Append(st.log, Event("after_each", hooks[i], c, t))]
         IN IF hooks[i] \in raises THEN now
            ELSE call_after_each_stops(hooks, i + 1, c, t, now)

RECURSIVE call_after_each(_, _, _, _, _)
\* the finally block from hook i on; st = [test_passed, error_msg, log]
call_after_each(hooks, i, c, t, st) ==
    IF i > Len(hooks) THEN st
    ELSE LET flip == hooks[i] \in raises /\ st.test_passed
         IN call_after_each(hooks, i + 1, c, t,
                [test_passed |-> IF flip THEN FALSE ELSE st.test_passed,
                 error_msg |-> IF flip THEN AfterEachFailed(hooks[i]) ELSE st.error_msg,
                 log |-> Append(st.log, Event("after_each", hooks[i], c, t))])

\* one iteration of "for test in tests_to_run": [result, log]
run_test(c, t) ==
    LET before == call_before_each(get_before_each_hooks(c), 1, c, t)
        body_called == ~before.raised
        body_raised == body_called /\ Body(t) \in raises
        tried == [test_passed |-> ~before.raised /\ ~body_raised,
                  error_msg |-> IF before.raised THEN before.error
                                ELSE IF body_raised THEN Message(Body(t))
                                ELSE NoError,
                  log |-> before.log \o
                          (IF body_called THEN <<Event("body", Body(t), c, t)>> ELSE <<>>)]
        done == call_after_each(get_after_each_hooks(c), 1, c, t, tried)
    IN [result |-> [name |-> full_test_name(c, t),
                    passed |-> done.test_passed,
                    error |-> done.error_msg],
        log |-> done.log]

RECURSIVE call_before_all_keeps_going(_, _, _)
\* mutant: a before_all hook that raises is reported and the context carries on
call_before_all_keeps_going(hooks, i, c) ==
    IF i > Len(hooks) THEN [ok |-> TRUE, log |-> <<>>]
    ELSE LET rest == call_before_all_keeps_going(hooks, i + 1, c)
         IN [rest EXCEPT !.log = <<Event("before_all", hooks[i], c, 0)>> \o rest.log]

RECURSIVE call_before_all(_, _, _)
\* the before_all loop from hook i on: [ok, log]
call_before_all(hooks, i, c) ==
    IF i > Len(hooks) THEN [ok |-> TRUE, log |-> <<>>]
    ELSE IF hooks[i] \in raises
         THEN [ok |-> FALSE, log |-> <<Event("before_all", hooks[i], c, 0)>>]
         ELSE LET rest == call_before_all(hooks, i + 1, c)
              IN [rest EXCEPT !.log = <<Event("before_all", hooks[i], c, 0)>> \o rest.log]

\* mutant: one try around the whole after_all loop, which ends at the first hook that raises
call_after_all_one_try(hooks, c) ==
    LET first == IF \E i \in DOMAIN hooks : hooks[i] \in raises
                 THEN CHOOSE i \in DOMAIN hooks :
                        hooks[i] \in raises /\ \A j \in 1..(i - 1) : hooks[j] \notin raises
                 ELSE Len(hooks)
    IN [i \in 1..first |-> Event("after_all", hooks[i], c, 0)]

\* the after_all loop: every hook is called, a raise is printed and dropped
call_after_all(hooks, c) ==
    [i \in DOMAIN hooks |-> Event("after_all", hooks[i], c, 0)]

Nothing == [passed |-> 0, failed |-> 0, results |-> <<>>, log |-> <<>>]

\* two outcomes in sequence
Then(a, b) ==
    [passed |-> a.passed + b.passed, failed |-> a.failed + b.failed,
     results |-> a.results \o b.results, log |-> a.log \o b.log]

RECURSIVE run_tests(_, _, _)
\* "for test in tests_to_run" from index i on
run_tests(c, tests_to_run, i) ==
    IF i > Len(tests_to_run) THEN Nothing
    ELSE LET one == run_test(c, tests_to_run[i])
         IN Then([passed |-> IF one.result.passed THEN 1 ELSE 0,
                  failed |-> IF one.result.passed THEN 0 ELSE 1,
                  results |-> <<one.result>>,
                  log |-> one.log],
                 run_tests(c, tests_to_run, i + 1))

RECURSIVE run_context(_, _)
RECURSIVE run_children(_, _, _)
\* mutant: the tests of a context whose before_all hook raised are counted as failed
run_context_counts_aborted(c, filter_set) ==
    IF ~(count_tests(c, filter_set) > 0) THEN Nothing
    ELSE LET before_all == call_before_all(before_all_hooks[c], 1, c)
         IN IF ~before_all.ok
            THEN [Nothing EXCEPT !.log = before_all.log, !.failed = count_tests(c, filter_set)]
            ELSE LET tests_to_run ==
                         IF filter_set.active
                         THEN SelectSeq(tests[c], LAMBDA t : t \in filter_set.ids)
                         ELSE tests[c]
                 IN Then([Nothing EXCEPT !.log = before_all.log],
                    Then(run_tests(c, tests_to_run, 1),
                    Then(run_children(c, 1, filter_set),
                         [Nothing EXCEPT !.log = call_after_all(after_all_hooks[c], c)])))

\* mutant: the child contexts are run before the context's own tests
run_context_children_first(c, filter_set) ==
    IF ~(count_tests(c, filter_set) > 0) THEN Nothing
    ELSE LET before_all == call_before_all(before_all_hooks[c], 1, c)
         IN IF ~before_all.ok THEN [Nothing EXCEPT !.log = before_all.log]
            ELSE LET tests_to_run ==
                         IF filter_set.active
                         THEN SelectSeq(tests[c], LAMBDA t : t \in filter_set.ids)
                         ELSE tests[c]
                 IN Then([Nothing EXCEPT !.log = before_all.log],
                    Then(run_children(c, 1, filter_set),
                    Then(run_tests(c, tests_to_run, 1),
                         [Nothing EXCEPT !.log = call_after_all(after_all_hooks[c], c)])))

\* _run_context: [passed, failed] returned, with the results appended and the calls made
run_context(c, filter_set) ==
    IF ~(count_tests(c, filter_set) > 0) THEN Nothing
    ELSE LET before_all == call_before_all(before_all_hooks[c], 1, c)
         IN IF ~before_all.ok THEN [Nothing EXCEPT !.log = before_all.log]
            ELSE LET tests_to_run ==
                         IF filter_set.active
                         THEN SelectSeq(tests[c], LAMBDA t : t \in filter_set.ids)
                         ELSE tests[c]
                 IN Then([Nothing EXCEPT !.log = before_all.log],
                    Then(run_tests(c, tests_to_run, 1),
                    Then(run_children(c, 1, filter_set),
                         [Nothing EXCEPT !.log = call_after_all(after_all_hooks[c], c)])))

\* mutant: the counts a child context returns are not added
run_children_counts_dropped(c, i, filter_set) ==
    IF i > Len(children[c]) THEN Nothing
    ELSE LET child == run_context(children[c][i], filter_set)
         IN Then([child EXCEPT !.passed = 0, !.failed = 0],
                 run_children(c, i + 1, filter_set))

\* mutant: the after_all hooks of a child context are called again after it has run
run_children_after_all_twice(c, i, filter_set) ==
    IF i > Len(children[c]) THEN Nothing
    ELSE LET d == children[c][i]
             child == run_context(d, filter_set)
         IN Then(child,
            Then([Nothing EXCEPT !.log =
                    IF child.results # <<>> THEN call_after_all(after_all_hooks[d], d) ELSE <<>>],
                 run_children(c, i + 1, filter_set)))

\* "for child in context.children" from index i on
run_children(c, i, filter_set) ==
    IF i > Len(children[c]) THEN Nothing
    ELSE Then(run_context(children[c][i], filter_set),
              run_children(c, i + 1, filter_set))

(***************************************************************************)
(* The trees a test file can register. describe() nests, so contexts       *)
(* numbered in creation order are numbered in depth-first order: the       *)
(* parent of context c is the context before it or one of its ancestors.   *)
(***************************************************************************)
RECURSIVE AncestorsOrSelf(_, _)
AncestorsOrSelf(par, c) ==
    IF c = Root THEN {Root} ELSE {c} \cup AncestorsOrSelf(par, par[c])

ParentFns(n) ==
    {par \in [0..n -> -1..n] :
        /\ par[Root] = NoParent
        /\ \A c \in 1..n : par[c] \in 0..(c - 1)
        /\ \A c \in 2..n : par[c] \in AncestorsOrSelf(par, c - 1)}

\* tests numbered in declaration order within their context
OwnerFns(n, m) ==
    {own \in [1..m -> 0..n] : \A t \in 1..(m - 1) : own[t] <= own[t + 1]}

ChildrenOf(par) == [c \in DOMAIN par |-> SetToSeq({d \in DOMAIN par : d # Root /\ par[d] = c})]
TestsOf(par, own) == [c \in DOMAIN par |-> SetToSeq({t \in DOMAIN own : own[t] = c})]

\* names: one character each
CtxNameOf(c) == IF c = Root THEN <<>> ELSE <<<<"a", "b", "c", "d">>[c]>>
TestNameOf(t) == <<<<"x", "y", "z", "w">>[t]>>

NoHooks(par) == [c \in DOMAIN par |-> <<>>]


\* the arguments of run: a file_line string and a filter_pattern string, None when not given
NoFileLine == [given |-> FALSE, file |-> NoFile, colon |-> FALSE, numeric |-> FALSE, line |-> NoLine]
\* "<file>:<line>"
FileLine(file, line) == [given |-> TRUE, file |-> file, colon |-> TRUE, numeric |-> TRUE, line |-> line]
\* "<file>:abc"
FileLineNoNumber(file) == [given |-> TRUE, file |-> file, colon |-> TRUE, numeric |-> FALSE, line |-> NoLine]
\* "<file>"
FileLineNoColon(file) == [given |-> TRUE, file |-> file, colon |-> FALSE, numeric |-> FALSE, line |-> NoLine]
NoPattern == [given |-> FALSE, text |-> <<>>]
Pattern(text) == [given |-> TRUE, text |-> text]

\* no tag declared or stored
NoTags == [context |-> <<>>, test |-> <<>>]

NoCall ==
    [op |-> "none", file |-> NoFile, line |-> NoLine, found |-> {},
     file_line |-> NoFileLine, filter_pattern |-> NoPattern,
     ret |-> FALSE, passed |-> 0, failed |-> 0, total |-> 0,
     results_before |-> 0, log_before |-> 0,
     context |-> NoParent, raised |-> FALSE,
     include_tags |-> {}, exclude_tags |-> {}]

(***************************************************************************)
(* Location filter: every tree of SelCtx contexts and SelTests tests, each *)
(* declared at any line of t.py, at most one of them declared in u.py.     *)
(***************************************************************************)
InitLoc ==
    \E par \in ParentFns(SelCtx), own \in OwnerFns(SelCtx, SelTests),
       cl \in [1..SelCtx -> 1..MaxLine], tl \in [1..SelTests -> 1..MaxLine],
       other \in {<<"none", 0>>, <<"ctx", 1>>, <<"test", 1>>} :
        /\ parent = par
        /\ children = ChildrenOf(par)
        /\ tests = TestsOf(par, own)
        /\ ctxName = [c \in DOMAIN par |-> CtxNameOf(c)]
        /\ ctxFile = [c \in DOMAIN par |->
                        IF c = Root THEN NoFile
                        ELSE IF other = <<"ctx", c>> THEN "/w/u.py" ELSE "/w/t.py"]
        /\ ctxLine = [c \in DOMAIN par |-> IF c = Root THEN NoLine ELSE cl[c]]
        /\ testName = [t \in DOMAIN own |-> TestNameOf(t)]
        /\ testFile = [t \in DOMAIN own |->
                        IF other = <<"test", t>> THEN "/w/u.py" ELSE "/w/t.py"]
        /\ testLine = tl
        /\ before_all_hooks = NoHooks(par)
        /\ after_all_hooks = NoHooks(par)
        /\ before_each_hooks = NoHooks(par)
        /\ after_each_hooks = NoHooks(par)
        /\ current_context = Root
        /\ scopes = <<>>
        /\ raises = {}
        /\ results = <<>>
        /\ log = <<>>
        /\ call = NoCall
        /\ returned = <<>>
        /\ tags = NoTags
        /\ declared_tags = NoTags
        /\ NoLibraries

\* a call of _find_tests_at_line
FindTestsAtLine(file, line) ==
    /\ call.op = "none"
    /\ call' = [NoCall EXCEPT !.op = "find", !.file = file, !.line = line,
                               !.found = find_tests_at_line(file, line)]
    /\ UNCHANGED <<treeVars, regVars, raises, results, log, returned, tagVars, libVars>>

NextLoc == \E file \in {"./t.py", "u.py"}, line \in 1..MaxLine : FindTestsAtLine(file, line)

SpecLoc == InitLoc /\ [][NextLoc]_vars

(***************************************************************************)
(* TestRunner.run (verbose output and filter_regex=True are left out).     *)
(***************************************************************************)
\* run stopped by an error before any test: it returns False
RunError == [ret |-> FALSE, passed |-> 0, failed |-> 0, total |-> 0,
             results |-> <<>>, log |-> <<>>]

\* mutant: success is "every counted test passed" instead of "no test failed"
run_filtered_all_passed(filter_set) ==
    LET r == run_context(Root, filter_set)
    IN [ret |-> r.passed = count_tests(Root, filter_set),
        passed |-> r.passed, failed |-> r.failed,
        total |-> count_tests(Root, filter_set),
        results |-> r.results, log |-> r.log]

\* lines 502-519: count, run the root context, return failed == 0
run_filtered(filter_set) ==
    LET r == run_context(Root, filter_set)
    IN [ret |-> r.failed = 0, passed |-> r.passed, failed |-> r.failed,
        total |-> count_tests(Root, filter_set),
        results |-> r.results, log |-> r.log]

\* mutant: the file:line filter replaces the pattern's filter_set instead of narrowing it
run_file_line_ignores_pattern(file_line, filter_set) ==
    IF ~file_line.colon THEN RunError
    ELSE IF ~file_line.numeric THEN RunError
    ELSE LET line_filter_set == find_tests_at_line(file_line.file, file_line.line)
         IN IF line_filter_set = {} THEN RunError
            ELSE run_filtered(FilterOf(line_filter_set))

\* lines 476-500: the file:line filter, combined with the pattern's filter_set
run_file_line(file_line, filter_set) ==
    IF ~file_line.colon THEN RunError
    ELSE IF ~file_line.numeric THEN RunError
    ELSE LET line_filter_set == find_tests_at_line(file_line.file, file_line.line)
         IN IF line_filter_set = {} THEN RunError
            ELSE IF filter_set.active
                 THEN run_filtered(FilterOf(filter_set.ids \cap line_filter_set))
                 ELSE run_filtered(FilterOf(line_filter_set))

\* mutant: an empty pattern filter_set is not checked for
run_without_empty_check(file_line, filter_pattern) ==
    LET use_pattern == filter_pattern.given /\ filter_pattern.text # <<>>
        filter_set == IF use_pattern
                      THEN FilterOf(filter_tests_by_pattern(filter_pattern.text))
                      ELSE NoFilter
    IN IF file_line.given THEN run_file_line(file_line, filter_set)
       ELSE run_filtered(filter_set)

run(file_line, filter_pattern) ==
    LET use_pattern == filter_pattern.given /\ filter_pattern.text # <<>>
        filter_set == IF use_pattern
                      THEN FilterOf(filter_tests_by_pattern(filter_pattern.text))
                      ELSE NoFilter
    IN IF use_pattern /\ filter_set.ids = {} THEN RunError
       ELSE IF file_line.given THEN run_file_line(file_line, filter_set)
       ELSE run_filtered(filter_set)

\* get_results(): the list itself
get_results == results

\* what a call of run does to the runner
RunCall(file_line, filter_pattern) ==
    /\ \E r \in {run(file_line, filter_pattern)} :
          /\ results' = results \o r.results
          /\ log' = log \o r.log
          /\ call' = [NoCall EXCEPT !.op = "run", !.file_line = file_line,
                                    !.filter_pattern = filter_pattern, !.ret = r.ret,
                                    !.passed = r.passed, !.failed = r.failed,
                                    !.total = r.total,
                                    !.results_before = Len(results),
                                    !.log_before = Len(log)]
          /\ returned' = Append(returned,
                [file_line |-> file_line, filter_pattern |-> filter_pattern,
                 ret |-> r.ret, results |-> get_results'])
    /\ UNCHANGED <<treeVars, regVars, raises, tagVars, libVars>>

\* the first call of TestRunner.run
Run(file_line, filter_pattern) ==
    /\ call.op = "none"
    /\ RunCall(file_line, filter_pattern)

\* a later call of TestRunner.run on the same runner and tree
RunAgain(file_line, filter_pattern) ==
    /\ call.op = "run"
    /\ Len(returned) < MaxRuns
    /\ RunCall(file_line, filter_pattern)

(***************************************************************************)
(* Registered trees for the specifications that run tests: every context   *)
(* holds NHooks hooks of each kind, every declaration is in t.py on a line *)
(* of its own, a context's tests before its child contexts.                *)
(***************************************************************************)
RECURSIVE SourceOrder(_, _, _)
\* the declarations below context c, in the order of the file
SourceOrder(ch, ts, c) ==
    (IF c = Root THEN <<>> ELSE <<<<"ctx", c>>>>)
    \o [i \in DOMAIN ts[c] |-> <<"test", ts[c][i]>>]
    \o FlattenSeq([i \in DOMAIN ch[c] |-> SourceOrder(ch, ts, ch[c][i])])

LineIn(order, item) == CHOOSE i \in DOMAIN order : order[i] = item

HooksOf(kind, par) == [c \in DOMAIN par |-> [i \in 1..NHooks |-> Hook(kind, c, i)]]

Callables(par, own) ==
    {Hook(kind, c, i) : kind \in {"before_all", "after_all", "before_each", "after_each"},
                        c \in DOMAIN par, i \in 1..NHooks}
    \cup {Body(t) : t \in DOMAIN own}

RECURSIVE SubsetsUpTo(_, _)
\* the subsets of S of at most k elements
SubsetsUpTo(S, k) ==
    IF k = 0 THEN {{}}
    ELSE LET smaller == SubsetsUpTo(S, k - 1)
         IN smaller \cup {sub \cup {x} : sub \in smaller, x \in S}

InitTree(par, own) ==
    LET ch == ChildrenOf(par)
        ts == TestsOf(par, own)
        order == SourceOrder(ch, ts, Root)
    IN /\ parent = par
       /\ children = ch
       /\ tests = ts
       /\ ctxName = [c \in DOMAIN par |-> CtxNameOf(c)]
       /\ ctxFile = [c \in DOMAIN par |-> IF c = Root THEN NoFile ELSE "/w/t.py"]
       /\ ctxLine = [c \in DOMAIN par |->
                        IF c = Root THEN NoLine ELSE LineIn(order, <<"ctx", c>>)]
       /\ testName = [t \in DOMAIN own |-> TestNameOf(t)]
       /\ testFile = [t \in DOMAIN own |-> "/w/t.py"]
       /\ testLine = [t \in DOMAIN own |-> LineIn(order, <<"test", t>>)]
       /\ before_all_hooks = HooksOf("before_all", par)
       /\ after_all_hooks = HooksOf("after_all", par)
       /\ before_each_hooks = HooksOf("before_each", par)
       /\ after_each_hooks = HooksOf("after_each", par)
       /\ current_context = Root
       /\ scopes = <<>>
       /\ results = <<>>
       /\ log = <<>>
       /\ call = NoCall
       /\ NoLibraries
       /\ returned = <<>>

(***************************************************************************)
(* Execution: every tree of NCtx contexts and NTests tests, at most        *)
(* MaxRaise callables raising, run without a filter.                       *)
(***************************************************************************)
Init ==
    \E par \in ParentFns(NCtx), own \in OwnerFns(NCtx, NTests) :
        /\ InitTree(par, own)
        /\ tags = NoTags
        /\ declared_tags = NoTags
        /\ raises \in SubsetsUpTo(Callables(par, own), MaxRaise)

Next == Run(NoFileLine, NoPattern)

Spec == Init /\ [][Next]_vars

(***************************************************************************)
(* Selection: every tree of SelCtx contexts and SelTests tests, at most    *)
(* SelRaise callables raising, run with any file:line and name pattern.    *)
(***************************************************************************)
InitSel ==
    \E par \in ParentFns(SelCtx), own \in OwnerFns(SelCtx, SelTests) :
        /\ InitTree(par, own)
        /\ tags = NoTags
        /\ declared_tags = NoTags
        /\ raises \in SubsetsUpTo(Callables(par, own), SelRaise)

FileLineArgs ==
    {NoFileLine, FileLineNoColon("t.py"), FileLineNoNumber("t.py"), FileLine("u.py", 1)}
    \cup {FileLine("./t.py", line) : line \in 1..(SelCtx + SelTests + 1)}

\* operands of the boolean patterns: no operator in them
Operands == {<<"a">>, <<"X">>}
\* "A and B", "not A"
AndPattern(A, B) == A \o <<" ", "a", "n", "d", " ">> \o B
NotPattern(A) == <<"n", "o", "t", " ">> \o A

\* "A or B and C", "A not B"
OrPattern(A, B) == A \o <<" ", "o", "r", " ">> \o B
OrAndPattern(A, B, C) == AndPattern(OrPattern(A, B), C)
InfixNotPattern(A, B) == A \o <<" ", "n", "o", "t", " ">> \o B
OrAndOperands == {<<(<<"X">>), (<<"y">>), (<<"a">>)>>, <<(<<"a">>), (<<"X">>), (<<"y">>)>>}

PatternArgs ==
    {NoPattern, Pattern(<<>>), Pattern(<<"a">>), Pattern(<<"X">>), Pattern(<<"q">>),
     Pattern(<<"x", " ", "o", "r", " ", "y">>)}
    \cup {Pattern(AndPattern(A, B)) : A, B \in Operands}
    \cup {Pattern(NotPattern(A)) : A \in Operands}
    \cup {Pattern(OrAndPattern(abc[1], abc[2], abc[3])) : abc \in OrAndOperands}
    \cup {Pattern(AndPattern(NotPattern(A), B)) : A, B \in Operands}
    \cup {Pattern(InfixNotPattern(<<"X">>, <<"a">>))}

NextSel ==
    \E file_line \in FileLineArgs, filter_pattern \in PatternArgs :
        Run(file_line, filter_pattern)

SpecSel == InitSel /\ [][NextSel]_vars

(***************************************************************************)
(* Repeated runs: the trees of the selection specification, run with any   *)
(* file:line and name pattern, then run again on the same runner, with the *)
(* same arguments or without a filter, up to MaxRuns times.                *)
(***************************************************************************)
NextTwice ==
    \/ \E file_line \in FileLineArgs, filter_pattern \in PatternArgs :
            Run(file_line, filter_pattern)
    \/ RunAgain(call.file_line, call.filter_pattern)
    \/ RunAgain(NoFileLine, NoPattern)

SpecTwice == InitSel /\ [][NextTwice]_vars

(***************************************************************************)
(* Tags. dsl.py and cli.py pass tags to describe and add_test and          *)
(* include_tags and exclude_tags to run; the runner of test_runner.py      *)
(* takes none of them, so the tags are modelled on the specification       *)
(* (sections 3, 4.1 and 4.3 (c)): a context stores the tags of its parent  *)
(* and its own, a test those of its context and its own, and run admits a  *)
(* test on the tags it stores.                                             *)
(***************************************************************************)
\* openContext: the tags a new context stores
open_context_tags(parent_tags, own_tags) == parent_tags \cup own_tags

\* addTest: the tags a new test stores
add_test_tags(context_tags, own_tags) == context_tags \cup own_tags

RECURSIVE context_tags(_, _, _)
\* the tags stored by context c of the tree par whose describe calls declared dc
context_tags(par, dc, c) ==
    IF c = Root THEN {}
    ELSE open_context_tags(context_tags(par, dc, par[c]), dc[c])

\* mutant: a test with a tag of excludeTags is rejected only when includeTags is given
tag_admits_exclude_with_include(test_tags, include_tags, exclude_tags) ==
    include_tags = {} \/ (test_tags \cap include_tags # {} /\ test_tags \cap exclude_tags = {})

\* the tag filter on the tags of one test
tag_admits(test_tags, include_tags, exclude_tags) ==
    /\ include_tags = {} \/ test_tags \cap include_tags # {}
    /\ test_tags \cap exclude_tags = {}

filter_tests_by_tags(include_tags, exclude_tags) ==
    {t \in AllTests : tag_admits(tags.test[t], include_tags, exclude_tags)}

\* run(include_tags=..., exclude_tags=...): no test admitted is an error
run_tags(include_tags, exclude_tags) ==
    IF include_tags = {} /\ exclude_tags = {} THEN run_filtered(NoFilter)
    ELSE LET tag_filter_set == filter_tests_by_tags(include_tags, exclude_tags)
         IN IF tag_filter_set = {} THEN RunError
            ELSE run_filtered(FilterOf(tag_filter_set))

\* a call of run with tag sets
RunTags(include_tags, exclude_tags) ==
    /\ call.op = "none"
    /\ \E r \in {run_tags(include_tags, exclude_tags)} :
          /\ results' = results \o r.results
          /\ log' = log \o r.log
          /\ call' = [NoCall EXCEPT !.op = "run", !.ret = r.ret,
                                    !.passed = r.passed, !.failed = r.failed,
                                    !.total = r.total,
                                    !.include_tags = include_tags,
                                    !.exclude_tags = exclude_tags]
          /\ returned' = Append(returned,
                [file_line |-> NoFileLine, filter_pattern |-> NoPattern,
                 ret |-> r.ret, results |-> get_results'])
    /\ UNCHANGED <<treeVars, regVars, raises, tagVars, libVars>>

\* the tags a test file declares on a describe and on a test
ContextTagArgs == {{}, {"unit"}, {"flaky"}}
TestTagArgs == {{}, {"unit"}, {"unit", "flaky"}, {"integration"}}
\* the tag sets a caller passes to run
IncludeTagArgs == {{}, {"unit"}, {"unit", "integration"}}
ExcludeTagArgs == {{}, {"flaky"}}

\* every tree of SelCtx contexts and SelTests tests, with any declared tags, no callable
\* raising
InitTag ==
    \E par \in ParentFns(SelCtx), own \in OwnerFns(SelCtx, SelTests),
       dc \in [0..SelCtx -> ContextTagArgs], dt \in [1..SelTests -> TestTagArgs] :
        /\ dc[Root] = {}
        /\ InitTree(par, own)
        /\ raises = {}
        /\ declared_tags = [context |-> dc, test |-> dt]
        /\ tags = [context |-> [c \in DOMAIN par |-> context_tags(par, dc, c)],
                   test |-> [t \in DOMAIN own |->
                               add_test_tags(context_tags(par, dc, own[t]), dt[t])]]

NextTag ==
    \E include_tags \in IncludeTagArgs, exclude_tags \in ExcludeTagArgs :
        RunTags(include_tags, exclude_tags)

SpecTag == InitTag /\ [][NextTag]_vars

(***************************************************************************)
(* Registration: a test file calls describe (entered and left as a with    *)
(* block), add_test and the four hook decorators on a new TestRunner. The  *)
(* declarations are in t.py, each on the line after the one before.        *)
(***************************************************************************)
\* TestRunner.__init__: the root context alone
NewRunner ==
    /\ parent = (Root :> NoParent)
    /\ children = (Root :> <<>>)
    /\ tests = (Root :> <<>>)
    /\ ctxName = (Root :> <<>>)
    /\ ctxFile = (Root :> NoFile)
    /\ ctxLine = (Root :> NoLine)
    /\ testName = <<>>
    /\ testFile = <<>>
    /\ testLine = <<>>
    /\ before_all_hooks = (Root :> <<>>)
    /\ after_all_hooks = (Root :> <<>>)
    /\ before_each_hooks = (Root :> <<>>)
    /\ after_each_hooks = (Root :> <<>>)
    /\ current_context = Root
    /\ scopes = <<>>
    /\ raises = {}
    /\ results = <<>>
    /\ log = <<>>
    /\ call = NoCall
    /\ returned = <<>>
    /\ tags = NoTags
    /\ declared_tags = NoTags

InitReg == NewRunner /\ NoLibraries

\* caller.f_lineno of the next declaration
NextLine == Cardinality(Contexts) + Len(testName)

\* "with runner.describe(name):" up to the yield (lines 124-154)
describe_enter(name) ==
    LET context == Cardinality(Contexts)
    IN /\ context <= RegCtx
       /\ parent' = parent @@ (context :> current_context)
       /\ ctxName' = ctxName @@ (context :> name)
       /\ ctxFile' = ctxFile @@ (context :> "/w/t.py")
       /\ ctxLine' = ctxLine @@ (context :> NextLine)
       /\ tests' = tests @@ (context :> <<>>)
       /\ before_all_hooks' = before_all_hooks @@ (context :> <<>>)
       /\ after_all_hooks' = after_all_hooks @@ (context :> <<>>)
       /\ before_each_hooks' = before_each_hooks @@ (context :> <<>>)
       /\ after_each_hooks' = after_each_hooks @@ (context :> <<>>)
       /\ children' = [children EXCEPT ![current_context] = Append(@, context)]
                        @@ (context :> <<>>)
       /\ scopes' = Append(scopes, [context |-> context, old_context |-> current_context])
       /\ current_context' = context
       /\ call' = [NoCall EXCEPT !.op = "describe", !.context = context]
       /\ UNCHANGED <<testName, testFile, testLine, raises, results, log, returned, tagVars, libVars>>

\* mutant: leaving a describe block makes the root the current context
describe_exit_to_root(exc) ==
    /\ scopes # <<>>
    /\ current_context' = Root
    /\ scopes' = SubSeq(scopes, 1, Len(scopes) - 1)
    /\ call' = [NoCall EXCEPT !.op = "exit", !.context = scopes[Len(scopes)].context,
                               !.raised = exc]
    /\ UNCHANGED <<treeVars, raises, results, log, returned, tagVars, libVars>>

\* the innermost describe block is left, by the end of its body or by an exception
\* raised in it, which goes on to the caller: the finally clause (lines 155-157)
describe_exit(exc) ==
    /\ scopes # <<>>
    /\ current_context' = scopes[Len(scopes)].old_context
    /\ scopes' = SubSeq(scopes, 1, Len(scopes) - 1)
    /\ call' = [NoCall EXCEPT !.op = "exit", !.context = scopes[Len(scopes)].context,
                               !.raised = exc]
    /\ UNCHANGED <<treeVars, raises, results, log, returned, tagVars, libVars>>

\* runner.add_test(name, func)
add_test(name) ==
    LET test == Len(testName) + 1
    IN /\ test <= RegTests
       /\ tests' = [tests EXCEPT ![current_context] = Append(@, test)]
       /\ testName' = Append(testName, name)
       /\ testFile' = Append(testFile, "/w/t.py")
       /\ testLine' = Append(testLine, NextLine)
       /\ call' = [NoCall EXCEPT !.op = "add_test", !.context = current_context]
       /\ UNCHANGED <<children, parent, ctxName, ctxFile, ctxLine,
                       before_all_hooks, after_all_hooks, before_each_hooks,
                       after_each_hooks, regVars, raises, results, log, returned, tagVars, libVars>>

\* the hooks registered so far
HookCount ==
    LET RECURSIVE sum(_)
        sum(S) == IF S = {} THEN 0
                  ELSE LET c == CHOOSE x \in S : TRUE
                       IN Len(before_all_hooks[c]) + Len(after_all_hooks[c])
                          + Len(before_each_hooks[c]) + Len(after_each_hooks[c])
                          + sum(S \ {c})
    IN sum(Contexts)

\* runner.before_all(func)
before_all ==
    /\ HookCount < RegHooks
    /\ before_all_hooks' = [before_all_hooks EXCEPT ![current_context] =
            Append(@, Hook("before_all", current_context, Len(@) + 1))]
    /\ call' = [NoCall EXCEPT !.op = "before_all", !.context = current_context]
    /\ UNCHANGED <<children, tests, parent, ctxName, ctxFile, ctxLine, testName, testFile,
                    testLine, after_all_hooks, before_each_hooks, after_each_hooks,
                    regVars, raises, results, log, returned, tagVars, libVars>>

\* runner.after_all(func)
after_all ==
    /\ HookCount < RegHooks
    /\ after_all_hooks' = [after_all_hooks EXCEPT ![current_context] =
            Append(@, Hook("after_all", current_context, Len(@) + 1))]
    /\ call' = [NoCall EXCEPT !.op = "after_all", !.context = current_context]
    /\ UNCHANGED <<children, tests, parent, ctxName, ctxFile, ctxLine, testName, testFile,
                    testLine, before_all_hooks, before_each_hooks, after_each_hooks,
                    regVars, raises, results, log, returned, tagVars, libVars>>

\* runner.before_each(func)
before_each ==
    /\ HookCount < RegHooks
    /\ before_each_hooks' = [before_each_hooks EXCEPT ![current_context] =
            Append(@, Hook("before_each", current_context, Len(@) + 1))]
    /\ call' = [NoCall EXCEPT !.op = "before_each", !.context = current_context]
    /\ UNCHANGED <<children, tests, parent, ctxName, ctxFile, ctxLine, testName, testFile,
                    testLine, before_all_hooks, after_all_hooks, after_each_hooks,
                    regVars, raises, results, log, returned, tagVars, libVars>>

\* runner.after_each(func)
after_each ==
    /\ HookCount < RegHooks
    /\ after_each_hooks' = [after_each_hooks EXCEPT ![current_context] =
            Append(@, Hook("after_each", current_context, Len(@) + 1))]
    /\ call' = [NoCall EXCEPT !.op = "after_each", !.context = current_context]
    /\ UNCHANGED <<children, tests, parent, ctxName, ctxFile, ctxLine, testName, testFile,
                    testLine, before_all_hooks, after_all_hooks, before_each_hooks,
                    regVars, raises, results, log, returned, tagVars, libVars>>

\* the names a test file gives its contexts: describe("") is accepted
ContextNames == {<<>>, <<"a">>}

NextReg ==
    \/ \E name \in ContextNames : describe_enter(name)
    \/ \E exc \in BOOLEAN : describe_exit(exc)
    \/ add_test(TestNameOf(Len(testName) + 1))
    \/ before_all
    \/ after_all
    \/ before_each
    \/ after_each

SpecReg == InitReg /\ [][NextReg]_vars

(***************************************************************************)
(* Mocks (mock.py): mock_zig_function contexts entered and left as with    *)
(* blocks, the registry they write, the calls of mocked functions, and the *)
(* function lookup of ZigLibrary (zig_ffi.py).                             *)
(***************************************************************************)
\* mock_zig_function contexts entered / calls of call_mock in one behaviour
MaxMocks == 2
MaxMockCalls == 3

\* the functions the library exports
FunctionNames == {"f", "g"}

\* dict operations: d[k] = v, del d[k], d.get(k, default)
SetItem(d, k, v) == [x \in DOMAIN d \cup {k} |-> IF x = k THEN v ELSE d[x]]
DelItem(d, k) == [x \in DOMAIN d \ {k} |-> d[x]]
GetItem(d, k, default) == IF k \in DOMAIN d THEN d[k] ELSE default

\* returns_sequence=None, told apart from every list of return values
NoSequence == <<None>>
\* _mocks.get(name) of a name that is not mocked; a MockConfig object is known by the
\* number of the context that made it
NoConfig == 0

\* MockConfig(returns=..., returns_sequence=..., side_effect=...)
MockConfig(returns, returns_sequence, side_effect) ==
    [returns |-> returns, returns_sequence |-> returns_sequence,
     side_effect |-> side_effect, call_count |-> 0, calls |-> <<>>,
     _sequence_index |-> 0]

register_mock(name, config) == SetItem(_mocks, name, config)

unregister_mock(name) == IF name \in DOMAIN _mocks THEN DelItem(_mocks, name) ELSE _mocks

is_mocked(name) == name \in DOMAIN _mocks

get_mock_config(name) == GetItem(_mocks, name, NoConfig)

\* the side_effect callables of the tests: "echo" returns its argument, "fail" raises
side_effect_call(side_effect, args) ==
    [ret |-> IF side_effect = "echo" THEN args[1] ELSE None,
     raised |-> side_effect = "fail"]

\* call_mock starting the sequence again when it is exhausted
call_mock_wraps(config, args) ==
    LET recorded == [config EXCEPT !.calls = Append(@, args), !.call_count = @ + 1]
        sequence == config.returns_sequence
    IN IF config.side_effect # None
       THEN [config |-> recorded,
             ret |-> side_effect_call(config.side_effect, args).ret,
             raised |-> side_effect_call(config.side_effect, args).raised]
       ELSE IF sequence # NoSequence /\ sequence # <<>>
       THEN [config |-> [recorded EXCEPT !._sequence_index = @ + 1],
             ret |-> sequence[(config._sequence_index % Len(sequence)) + 1],
             raised |-> FALSE]
       ELSE [config |-> recorded, ret |-> config.returns, raised |-> FALSE]

\* call_mock once the configuration is found: the configuration after the call, the
\* value returned and whether the call raised
call_mock(config, args) ==
    LET recorded == [config EXCEPT !.calls = Append(@, args), !.call_count = @ + 1]
        sequence == config.returns_sequence
    IN IF config.side_effect # None
       THEN [config |-> recorded,
             ret |-> side_effect_call(config.side_effect, args).ret,
             raised |-> side_effect_call(config.side_effect, args).raised]
       ELSE IF sequence # NoSequence
       THEN IF config._sequence_index < Len(sequence)
            THEN [config |-> [recorded EXCEPT !._sequence_index = @ + 1],
                  ret |-> sequence[config._sequence_index + 1],
                  raised |-> FALSE]
            ELSE [config |-> recorded,
                  ret |-> IF sequence # <<>> THEN sequence[Len(sequence)] ELSE None,
                  raised |-> FALSE]
       ELSE [config |-> recorded, ret |-> config.returns, raised |-> FALSE]

\* ZigLibrary.get_function: what it returns and _functions after it
get_function(name) ==
    IF is_mocked(name)
    THEN [ret |-> <<"MockFunction", name>>, functions |-> _functions]
    ELSE [ret |-> <<"library function", name>>, functions |-> _functions \cup {name}]

\* the contexts whose with block is open, and the innermost of them
OpenMocks == {i \in DOMAIN mock_contexts : mock_contexts[i].position = "body"}
InnermostMock == CHOOSE i \in OpenMocks : \A j \in OpenMocks : j <= i

\* the calls of call_mock that found a configuration
MockCalls == {<<i, k>> \in (DOMAIN mock_contexts) \X (1..MaxMockCalls + 1) :
                k <= Len(mock_contexts[i].returned)}

\* with mock_zig_function(name, ...): up to the yield
mock_zig_function_enter(name, returns, returns_sequence, side_effect) ==
    /\ Len(mock_contexts) < MaxMocks
    /\ \E config \in {Len(mock_contexts) + 1} :
        /\ mock_contexts' = Append(mock_contexts,
                                [name |-> name,
                                 config |-> MockConfig(returns, returns_sequence, side_effect),
                                 position |-> "body",
                                 replaced |-> get_mock_config(name),
                                 returned |-> <<>>])
        /\ _mocks' = register_mock(name, config)
        /\ call' = [op |-> "mock_zig_function", name |-> name, context |-> config]
    /\ UNCHANGED <<_functions, runnerVars, factoryVars, snapshotVars>>

\* mock_zig_function without its try/finally: an exception of the body skips
\* unregister_mock
mock_zig_function_exit_no_finally(exc) ==
    /\ OpenMocks # {}
    /\ \E i \in {InnermostMock} :
        /\ mock_contexts' = [mock_contexts EXCEPT ![i].position = "exited"]
        /\ _mocks' = IF exc THEN _mocks ELSE unregister_mock(mock_contexts[i].name)
        /\ call' = [op |-> "mock_zig_function_exit", name |-> mock_contexts[i].name,
                    context |-> i, exc |-> exc]
    /\ UNCHANGED <<_functions, runnerVars, factoryVars, snapshotVars>>

\* the with block of the innermost open context ends, normally or by an exception of
\* its body (exc): the finally clause
mock_zig_function_exit(exc) ==
    /\ OpenMocks # {}
    /\ \E i \in {InnermostMock} :
        /\ mock_contexts' = [mock_contexts EXCEPT ![i].position = "exited"]
        /\ _mocks' = unregister_mock(mock_contexts[i].name)
        /\ call' = [op |-> "mock_zig_function_exit", name |-> mock_contexts[i].name,
                    context |-> i, exc |-> exc]
    /\ UNCHANGED <<_functions, runnerVars, factoryVars, snapshotVars>>

\* a call of MockRegistry.call_mock(name, *args)
CallMock(name, args) ==
    /\ Cardinality(MockCalls) < MaxMockCalls
    /\ IF get_mock_config(name) = NoConfig
       THEN /\ call' = [op |-> "call_mock", name |-> name, args |-> args,
                        context |-> NoConfig, ret |-> None, raised |-> TRUE]
            /\ UNCHANGED mock_contexts
       ELSE \E i \in {get_mock_config(name)} :
            \E r \in {call_mock(mock_contexts[i].config, args)} :
                /\ mock_contexts' = [mock_contexts EXCEPT
                                        ![i].config = r.config,
                                        ![i].returned = Append(@, [ret |-> r.ret,
                                                                   raised |-> r.raised])]
                /\ call' = [op |-> "call_mock", name |-> name, args |-> args,
                            context |-> i, ret |-> r.ret, raised |-> r.raised]
    /\ UNCHANGED <<_mocks, _functions, runnerVars, factoryVars, snapshotVars>>

\* a call of ZigLibrary.get_function(name, argtypes, restype)
GetFunction(name) ==
    /\ \E r \in {get_function(name)} :
        /\ _functions' = r.functions
        /\ call' = [op |-> "get_function", name |-> name, ret |-> r.ret]
    /\ UNCHANGED <<_mocks, mock_contexts, runnerVars, factoryVars, snapshotVars>>

\* the arguments of mock_zig_function in the tests: returns, returns_sequence, side_effect
MockArgs ==
    {<<"v9", NoSequence, None>>,
     <<None, <<"v1", "v2">>, None>>,
     <<None, <<>>, None>>,
     <<None, NoSequence, "echo">>,
     <<"v9", <<"v1", "v2">>, "fail">>}

InitMock == NewRunner /\ NoLibraries

NextMock ==
    \/ \E name \in FunctionNames, a \in MockArgs :
          mock_zig_function_enter(name, a[1], a[2], a[3])
    \/ \E exc \in BOOLEAN : mock_zig_function_exit(exc)
    \/ \E name \in FunctionNames : CallMock(name, <<"a5">>)
    \/ \E name \in FunctionNames : GetFunction(name)

SpecMock == InitMock /\ [][NextMock]_vars

(***************************************************************************)
(* Factories (factory.py): one StructFactory subclass with two sequences,  *)
(* a field with a default and a trait, built through its call, build, the  *)
(* trait and build_batch.                                                  *)
(***************************************************************************)
\* builds recorded in one behaviour / largest count of build_batch / largest counter of
\* the sequences when the behaviour starts
MaxBuilds == 3
MaxBatch == 2
MaxUsed == 2

\* the factory: id = sequence(lambda n: n), code = sequence(lambda n: n + 100) (its
\* SequenceFields), workers = factory_field(default=0), and the fields of its struct_class
FactoryFields == {"workers"}
struct_field_names == {"id", "code", "workers"}

\* Sequence.func of the sequence of a field
func(field, n) == IF field = "id" THEN n ELSE n + 100

\* FactoryField.resolve of the field workers
resolve(field) == 0

\* the values of the trait "active" of the factory
trait_values == ("workers" :> 2)

\* {**a, **b} and a.update(b)
Update(a, b) == [k \in DOMAIN a \cup DOMAIN b |-> IF k \in DOMAIN b THEN b[k] ELSE a[k]]

\* Sequence.next counting from zero
next_from_zero(c) == [counter |-> c + 1, n |-> c]

\* Sequence.next: the counter after it and the argument func is called with
next(c) == [counter |-> c + 1, n |-> c + 1]

\* StructFactory.build: the counters after it and the struct it returns
build(counters, overrides) ==
    LET values == Update([f \in FactoryFields \cup SequenceFields |->
                            IF f \in FactoryFields
                            THEN resolve(f)
                            ELSE func(f, next(counters[f]).n)],
                         overrides)
    IN [counter |-> [f \in SequenceFields |-> next(counters[f]).counter],
        struct |-> [f \in struct_field_names |-> IF f \in DOMAIN values THEN values[f] ELSE 0]]

RECURSIVE build_batch(_, _, _)
\* StructFactory.build_batch: the counters after it and the list it returns
build_batch(counters, count, overrides) ==
    IF count <= 0
    THEN [counter |-> counters, ret |-> <<>>]
    ELSE LET first == build(counters, overrides)
             rest == build_batch(first.counter, count - 1, overrides)
         IN [counter |-> rest.counter, ret |-> <<first.struct>> \o rest.ret]

\* the record of one build: how it was made, the overrides build received and its struct
Built(via, overrides, struct) == [via |-> via, overrides |-> overrides, struct |-> struct]

\* Factory(**overrides), Factory.build(**overrides) and Factory.active(**overrides)
Build(via, overrides) ==
    /\ Len(since_reset.builds) < MaxBuilds
    /\ \E merged \in {IF via = "trait" THEN Update(trait_values, overrides) ELSE overrides} :
       \E r \in {build(counter, merged)} :
        /\ counter' = r.counter
        /\ since_reset' = [since_reset EXCEPT
                             !.builds = Append(@, Built(via, merged, r.struct))]
        /\ call' = [op |-> via, overrides |-> overrides, ret |-> r.struct,
                    counter_before |-> counter]
    /\ UNCHANGED <<runnerVars, mockVars, snapshotVars>>

\* Factory.build_batch(count, **overrides)
BuildBatch(count, overrides) ==
    /\ Len(since_reset.builds) + count <= MaxBuilds
    /\ \E r \in {build_batch(counter, count, overrides)} :
        /\ counter' = r.counter
        /\ since_reset' = [since_reset EXCEPT
                             !.builds = @ \o [i \in DOMAIN r.ret |->
                                                Built("build_batch", overrides, r.ret[i])]]
        /\ call' = [op |-> "build_batch", count |-> count, overrides |-> overrides,
                    ret |-> r.ret, counter_before |-> counter]
    /\ UNCHANGED <<runnerVars, mockVars, snapshotVars>>

\* Factory.reset_sequences()
reset_sequences ==
    /\ counter' = [f \in SequenceFields |-> 0]
    /\ since_reset' = [reset |-> TRUE, builds |-> <<>>]
    /\ call' = [op |-> "reset_sequences", counter_before |-> counter]
    /\ UNCHANGED <<runnerVars, mockVars, snapshotVars>>

\* the overrides of the tests: none, a field with a default, a sequence field
OverrideArgs == {EmptyDict, ("workers" :> 5), ("id" :> 50)}

\* the factory has made up to MaxUsed structs since it was defined
InitFactory ==
    /\ NewRunner
    /\ NoMocks
    /\ NoSnapshots
    /\ \E used \in 0..MaxUsed : counter = [f \in SequenceFields |-> used]
    /\ since_reset = [reset |-> FALSE, builds |-> <<>>]

NextFactory ==
    \/ \E via \in {"call", "build", "trait"}, overrides \in OverrideArgs : Build(via, overrides)
    \/ \E count \in 0..MaxBatch, overrides \in OverrideArgs : BuildBatch(count, overrides)
    \/ reset_sequences

SpecFactory == InitFactory /\ [][NextFactory]_vars

(***************************************************************************)
(* Snapshots (snapshot.py): the manager of one run after another over the  *)
(* same snapshot directory, the tests that set the current test and match  *)
(* values, with update mode switched on and off.                           *)
(***************************************************************************)
\* calls of match_snapshot recorded in one behaviour
MaxMatches == 3

\* the test files of the project and the tests that match snapshots
TestFiles == {"/w/pzspec/test_a.py", "/w/pzspec/test_b.py"}
TestNames == {"t"}

\* the values matched, by Python type and JSON text: 1, [1] and (1,)
PythonValues == {<<"int", "1">>, <<"list", "1">>, <<"tuple", "1">>}

\* the name arguments of match_snapshot
SnapshotNames == {None, "k"}

\* SnapshotManager._serialize: json.dumps of a number is its JSON text; of a list or a
\* tuple, the indented JSON list of the serialized items
_serialize(value) ==
    IF value[1] \in {"list", "tuple"} THEN "[\n  \"1\"\n]" ELSE value[2]

\* f"{test_name}_{counter}"
FormatKey(test_name, n) ==
    CASE test_name = "t" /\ n = 1 -> "t_1"
      [] test_name = "t" /\ n = 2 -> "t_2"
      [] test_name = "t" /\ n = 3 -> "t_3"
      [] test_name = "t_1" /\ n = 1 -> "t_1_1"
      [] test_name = "t_1" /\ n = 2 -> "t_1_2"
      [] test_name = "t_1" /\ n = 3 -> "t_1_3"
      [] OTHER -> "t_n"

\* SnapshotManager._get_snapshot_key: the key and _snapshot_counters after it
_get_snapshot_key(name) ==
    IF name # None /\ name # ""
    THEN [key |-> name, counters |-> _snapshot_counters]
    ELSE LET key == <<_current_test_file, _current_test_name>>
             n == GetItem(_snapshot_counters, key, 0)
         IN [key |-> IF n = 0 THEN _current_test_name ELSE FormatKey(_current_test_name, n),
             counters |-> SetItem(_snapshot_counters, key, n + 1)]

\* SnapshotManager._get_snapshot_file: the name of the file in snapshot_dir
_get_snapshot_file(test_file) ==
    IF test_file = "/w/pzspec/test_a.py" THEN "test_a.snap.json" ELSE "test_b.snap.json"

\* SnapshotManager._load_snapshots: _snapshots after it
_load_snapshots(test_file) ==
    IF test_file \in DOMAIN _snapshots
    THEN _snapshots
    ELSE SetItem(_snapshots, test_file,
                 GetItem(snapshot_files, _get_snapshot_file(test_file), EmptyDict))

SnapshotResult(matched, expected, actual, is_new, was_updated) ==
    [matched |-> matched, expected |-> expected, actual |-> actual, is_new |-> is_new,
     was_updated |-> was_updated]

\* match_snapshot saving the value it was given also when it reports a mismatch
match_snapshot_saves_mismatch(snapshots, snapshot_key, actual) ==
    IF snapshot_key \notin DOMAIN snapshots
    THEN [snapshots |-> SetItem(snapshots, snapshot_key, actual), saved |-> TRUE,
          result |-> SnapshotResult(TRUE, None, actual, TRUE, FALSE)]
    ELSE IF actual = snapshots[snapshot_key]
    THEN [snapshots |-> snapshots, saved |-> FALSE,
          result |-> SnapshotResult(TRUE, snapshots[snapshot_key], actual, FALSE, FALSE)]
    ELSE [snapshots |-> SetItem(snapshots, snapshot_key, actual), saved |-> TRUE,
          result |-> SnapshotResult(_update_snapshots, snapshots[snapshot_key], actual,
                                    FALSE, _update_snapshots)]

\* match_snapshot once the value is serialized, the key made and the snapshots of the
\* test file loaded: the snapshots after it, whether it saved them, and its result
match_snapshot(snapshots, snapshot_key, actual) ==
    IF snapshot_key \notin DOMAIN snapshots
    THEN [snapshots |-> SetItem(snapshots, snapshot_key, actual), saved |-> TRUE,
          result |-> SnapshotResult(TRUE, None, actual, TRUE, FALSE)]
    ELSE IF actual = snapshots[snapshot_key]
    THEN [snapshots |-> snapshots, saved |-> FALSE,
          result |-> SnapshotResult(TRUE, snapshots[snapshot_key], actual, FALSE, FALSE)]
    ELSE IF _update_snapshots
    THEN [snapshots |-> SetItem(snapshots, snapshot_key, actual), saved |-> TRUE,
          result |-> SnapshotResult(TRUE, snapshots[snapshot_key], actual, FALSE, TRUE)]
    ELSE [snapshots |-> snapshots, saved |-> FALSE,
          result |-> SnapshotResult(FALSE, snapshots[snapshot_key], actual, FALSE, FALSE)]

\* init_snapshot_manager(project_root): the manager of a new run over the same directory
init_snapshot_manager ==
    /\ _snapshots' = EmptyDict
    /\ _snapshot_counters' = EmptyDict
    /\ _current_test_file' = None
    /\ _current_test_name' = None
    /\ UNCHANGED <<_update_snapshots, snapshot_files, matches, call, runnerVars, mockVars,
                   factoryVars>>

set_update_snapshots(update) ==
    /\ _update_snapshots' = update
    /\ UNCHANGED <<_snapshots, _snapshot_counters, _current_test_file, _current_test_name,
                   snapshot_files, matches, call, runnerVars, mockVars, factoryVars>>

set_current_test(test_file, test_name) ==
    /\ _current_test_file' = test_file
    /\ _current_test_name' = test_name
    /\ _snapshot_counters' = SetItem(_snapshot_counters, <<test_file, test_name>>, 0)
    /\ UNCHANGED <<_snapshots, _update_snapshots, snapshot_files, matches, call, runnerVars,
                   mockVars, factoryVars>>

\* a call of SnapshotManager.match_snapshot(value, name); with no current test it raises
\* RuntimeError and changes nothing
MatchSnapshot(value, name) ==
    /\ Len(matches) < MaxMatches
    /\ IF _current_test_file = None
       THEN UNCHANGED <<_snapshots, _snapshot_counters, snapshot_files, matches>>
       ELSE \E actual \in {_serialize(value)}, k \in {_get_snapshot_key(name)},
               loaded \in {_load_snapshots(_current_test_file)} :
            \E r \in {match_snapshot(loaded[_current_test_file], k.key, actual)} :
                /\ _snapshot_counters' = k.counters
                /\ _snapshots' = SetItem(loaded, _current_test_file, r.snapshots)
                /\ snapshot_files' =
                      IF r.saved
                      THEN SetItem(snapshot_files, _get_snapshot_file(_current_test_file),
                                   r.snapshots)
                      ELSE snapshot_files
                /\ matches' = Append(matches,
                                     [test_file |-> _current_test_file, key |-> k.key,
                                      value |-> value, update |-> _update_snapshots,
                                      stored_before |-> GetItem(loaded[_current_test_file],
                                                                k.key, None),
                                      stored_after |-> r.snapshots[k.key],
                                      result |-> r.result])
    /\ UNCHANGED <<_current_test_file, _current_test_name, _update_snapshots, call,
                   runnerVars, mockVars, factoryVars>>

\* SnapshotManager.__init__ over an empty snapshot directory
InitSnapshot == NewRunner /\ NoLibraries

NextSnapshot ==
    \/ init_snapshot_manager
    \/ \E update \in BOOLEAN : set_update_snapshots(update)
    \/ \E test_file \in TestFiles, test_name \in TestNames :
          set_current_test(test_file, test_name)
    \/ \E value \in PythonValues, name \in SnapshotNames : MatchSnapshot(value, name)

SpecSnapshot == InitSnapshot /\ [][NextSnapshot]_vars

(***************************************************************************)
(* Vocabulary of the properties, read off the tree and the record of calls.*)
(***************************************************************************)
RECURSIVE Chain(_)
\* the contexts from the root down to c
Chain(c) == IF parent[c] = NoParent THEN <<c>> ELSE Append(Chain(parent[c]), c)

Reverse(s) == [i \in DOMAIN s |-> s[Len(s) + 1 - i]]

\* the before_each hooks of the root, then of each context down to c
BeforeEachRootToSelf(c) ==
    FlattenSeq([i \in DOMAIN Chain(c) |-> before_each_hooks[Chain(c)[i]]])

\* the after_each hooks of c, then of each context up to the root
AfterEachSelfToRoot(c) ==
    FlattenSeq([i \in DOMAIN Chain(c) |-> after_each_hooks[Reverse(Chain(c))[i]]])

\* the contexts below c, c included, and their tests
Subtree(c) == {d \in Contexts : c \in Range(Chain(d))}
TestsUnder(c) == UNION {Range(tests[d]) : d \in Subtree(c)}

\* the calls made for test t, in order
EventsOf(t) == SelectSeq(log, LAMBDA e : e.test = t)
CallsOf(t) == [i \in DOMAIN EventsOf(t) |-> <<EventsOf(t)[i].kind, EventsOf(t)[i].fn>>]
CallsOfKind(t, kind) ==
    LET ev == SelectSeq(EventsOf(t), LAMBDA e : e.kind = kind)
    IN [i \in DOMAIN ev |-> ev[i].fn]
Started(t) == EventsOf(t) # <<>>
BodyCalled(t) == CallsOfKind(t, "body") # <<>>
StartedTests == {t \in AllTests : Started(t)}
BodyCalledTests == {t \in AllTests : BodyCalled(t)}

Tagged(kind, fns) == [i \in DOMAIN fns |-> <<kind, fns[i]>>]

\* the index of the first callable of fns that raises, 0 when none does
FirstRaising(fns) ==
    IF \E i \in DOMAIN fns : fns[i] \in raises
    THEN CHOOSE i \in DOMAIN fns : fns[i] \in raises /\ \A j \in 1..(i - 1) : fns[j] \notin raises
    ELSE 0

\* the Result Records of test t
RecordsOf(t) ==
    SelectSeq(results, LAMBDA r : r.name = full_test_name(ContextOf(t), t))

(***************************************************************************)
(* C1. For every test whose body run executes, the calls made for it are   *)
(* the before_each hooks of the contexts from the root down to its own     *)
(* (each context's in registration order), then the body, then the         *)
(* after_each hooks from its own context up to the root; for every test    *)
(* started, the before_each calls are an initial part of that              *)
(* root-to-self list and come before the after_each calls, which are the   *)
(* whole self-to-root list.                                                *)
(***************************************************************************)
C1_HookOrder ==
    call.op = "run" =>
        \A t \in StartedTests :
            LET c == ContextOf(t)
                B == BeforeEachRootToSelf(c)
                A == AfterEachSelfToRoot(c)
            IN /\ BodyCalled(t) =>
                    CallsOf(t) = Tagged("before_each", B) \o <<<<"body", Body(t)>>>>
                                 \o Tagged("after_each", A)
               /\ \E n \in 0..Len(B) :
                    CallsOf(t) = Tagged("before_each", SubSeq(B, 1, n))
                                 \o (IF BodyCalled(t) THEN <<<<"body", Body(t)>>>> ELSE <<>>)
                                 \o Tagged("after_each", A)

\* a test three contexts deep has run with all its hooks and its body
C1_Witness ==
    /\ call.op = "run"
    /\ \E t \in AllTests :
        /\ depth(ContextOf(t)) = 3
        /\ BodyCalled(t)
        /\ Len(CallsOf(t)) = 8 * NHooks + 1

(***************************************************************************)
(* C2. When a before_each hook of a test's effective list raises, the      *)
(* hooks after it and the body are not called, the test's Result Record    *)
(* has passed = False and the hook's message as error, and every effective *)
(* after_each hook is still called.                                        *)
(***************************************************************************)
C2_BeforeEachFailure ==
    call.op = "run" =>
        \A t \in StartedTests :
            LET c == ContextOf(t)
                B == BeforeEachRootToSelf(c)
                k == FirstRaising(B)
            IN k # 0 =>
                /\ CallsOfKind(t, "before_each") = SubSeq(B, 1, k)
                /\ ~BodyCalled(t)
                /\ Len(RecordsOf(t)) = 1
                /\ RecordsOf(t)[1].passed = FALSE
                /\ RecordsOf(t)[1].error = Message(B[k])
                /\ CallsOfKind(t, "after_each") = AfterEachSelfToRoot(c)

\* a before_each hook that is not the last of the list has raised for a started test
C2_Witness ==
    /\ call.op = "run"
    /\ \E t \in StartedTests :
        LET B == BeforeEachRootToSelf(ContextOf(t))
        IN /\ FirstRaising(B) \in 1..(Len(B) - 1)
           /\ RecordsOf(t)[1].passed = FALSE

(***************************************************************************)
(* C3. If the before_each hooks and the body of a test succeed and some    *)
(* after_each hook raises, the Result Record has passed = False and error  *)
(* "after_each failed: " + the message of the first after_each hook that   *)
(* raised; if the test had failed before the after_each hooks, its error   *)
(* stays the message of that earlier failure.                              *)
(***************************************************************************)
C3_AfterEachFailure ==
    call.op = "run" =>
        \A t \in StartedTests :
            LET c == ContextOf(t)
                B == BeforeEachRootToSelf(c)
                A == AfterEachSelfToRoot(c)
                kb == FirstRaising(B)
                ka == FirstRaising(A)
                rec == RecordsOf(t)[1]
            IN /\ Len(RecordsOf(t)) = 1
               /\ (kb = 0 /\ Body(t) \notin raises /\ ka # 0) =>
                    (rec.passed = FALSE /\ rec.error = AfterEachFailed(A[ka]))
               /\ kb # 0 => (rec.passed = FALSE /\ rec.error = Message(B[kb]))
               /\ (kb = 0 /\ Body(t) \in raises) =>
                    (rec.passed = FALSE /\ rec.error = Message(Body(t)))

\* two after_each hooks have raised for a test whose before_each hooks and body succeeded
C3_Witness ==
    /\ call.op = "run"
    /\ \E t \in StartedTests :
        LET A == AfterEachSelfToRoot(ContextOf(t))
        IN /\ BodyCalled(t) /\ Body(t) \notin raises
           /\ \E i, j \in DOMAIN A : i < j /\ A[i] \in raises /\ A[j] \in raises
           /\ RecordsOf(t)[1].error = AfterEachFailed(A[FirstRaising(A)])

(***************************************************************************)
(* C4. A run with no filters returns True if and only if no Result Record  *)
(* it produced has passed = False.                                         *)
(***************************************************************************)
C4_RunReturn ==
    (call.op = "run" /\ ~call.file_line.given /\ ~call.filter_pattern.given) =>
        (call.ret = TRUE <=> \A i \in DOMAIN results : results[i].passed)

\* an unfiltered run has returned False with a failed and a passed record
C4_Witness ==
    /\ call.op = "run" /\ ~call.file_line.given /\ ~call.filter_pattern.given
    /\ call.ret = FALSE
    /\ \E i, j \in DOMAIN results : results[i].passed /\ ~results[j].passed

(***************************************************************************)
(* Vocabulary of the selection properties.                                 *)
(***************************************************************************)
\* run was called with a name pattern (a non-empty string)
PatternUsed == call.op = "run" /\ call.filter_pattern.given /\ call.filter_pattern.text # <<>>
\* run was called with a well-formed "<file>:<line>"
FileLineUsed ==
    call.op = "run" /\ call.file_line.given /\ call.file_line.colon /\ call.file_line.numeric
\* the tests each filter of the call admits
PatternAdmitted == filter_tests_by_pattern(call.filter_pattern.text)
LocationAdmitted == find_tests_at_line(call.file_line.file, call.file_line.line)
NoBeforeAllFailed == \A i \in DOMAIN log : ~(log[i].kind = "before_all" /\ log[i].raised)

(***************************************************************************)
(* C5. When run is given a name pattern that no registered test matches,   *)
(* it returns False, calls no hook and no test body, and appends no        *)
(* Result Record.                                                          *)
(***************************************************************************)
C5_NoMatchIsError ==
    (PatternUsed /\ PatternAdmitted = {}) =>
        (call.ret = FALSE /\ log = <<>> /\ results = <<>>)

\* run was called with a pattern no test matches, on a tree that holds tests
C5_Witness ==
    /\ PatternUsed /\ PatternAdmitted = {}
    /\ ~call.file_line.given
    /\ AllTests # {}
    /\ call.ret = FALSE

(***************************************************************************)
(* C6. When run is given a file:line and a name pattern that each match a  *)
(* test but no test matches both, run returns False and executes no test.  *)
(***************************************************************************)
C6_EmptyIntersectionIsError ==
    (/\ PatternUsed /\ FileLineUsed
     /\ PatternAdmitted # {} /\ LocationAdmitted # {}
     /\ PatternAdmitted \cap LocationAdmitted = {}) =>
        (call.ret = FALSE /\ StartedTests = {})

(***************************************************************************)
(* C7 as stated. When run is given a file:line and a name pattern and no   *)
(* before_all hook fails, the tests whose body is executed are exactly the *)
(* tests both filters admit, and no call is made for any other test.       *)
(***************************************************************************)
C7_BodiesAreIntersection ==
    (PatternUsed /\ FileLineUsed /\ NoBeforeAllFailed) =>
        /\ BodyCalledTests = PatternAdmitted \cap LocationAdmitted
        /\ \A t \in AllTests \ (PatternAdmitted \cap LocationAdmitted) : ~Started(t)

(***************************************************************************)
(* C7 amended. When run is given a file:line and a name pattern and no     *)
(* before_all hook fails, the tests run (hooks called, one Result Record   *)
(* appended) are exactly the tests both filters admit; the body of such a  *)
(* test is executed unless one of its before_each hooks raises; no call is *)
(* made for any other test.                                                *)
(***************************************************************************)
C7_RunIsIntersection ==
    (PatternUsed /\ FileLineUsed /\ NoBeforeAllFailed) =>
        LET admitted == PatternAdmitted \cap LocationAdmitted
        IN /\ StartedTests = admitted
           /\ \A t \in admitted : Len(RecordsOf(t)) = 1
           /\ BodyCalledTests =
                {t \in admitted : FirstRaising(BeforeEachRootToSelf(ContextOf(t))) = 0}
           /\ \A t \in AllTests \ admitted : ~Started(t) /\ RecordsOf(t) = <<>>

\* both filters admit tests the other rejects, and the test they share has run
C7_Witness ==
    /\ PatternUsed /\ FileLineUsed /\ NoBeforeAllFailed
    /\ PatternAdmitted \cap LocationAdmitted # {}
    /\ PatternAdmitted \ LocationAdmitted # {}
    /\ LocationAdmitted \ PatternAdmitted # {}
    /\ StartedTests = PatternAdmitted \cap LocationAdmitted
    /\ BodyCalledTests # {}

(***************************************************************************)
(* C11. Run with the pattern "A and B" alone admits exactly the tests      *)
(* whose full hierarchical name (the context's full name joined to the     *)
(* test's name) contains both A and B, whatever the case of the letters;   *)
(* run with "not A" admits exactly the tests whose full name does not      *)
(* contain A. Admitted: counted, and run unless a before_all hook fails;   *)
(* when none is admitted run returns False and calls nothing.              *)
(***************************************************************************)
NameHas(t, A) == Contains(Lower(full_test_name(ContextOf(t), t)), Lower(A))
HasBoth(A, B) == {t \in AllTests : NameHas(t, A) /\ NameHas(t, B)}
HasNot(A) == {t \in AllTests : ~NameHas(t, A)}
\* run admitted exactly the tests of S
RunAdmitted(S) ==
    /\ call.total = Cardinality(S)
    /\ S = {} => (call.ret = FALSE /\ log = <<>> /\ results = <<>>)
    /\ StartedTests \subseteq S
    /\ NoBeforeAllFailed => StartedTests = S

C11_BooleanPattern ==
    (call.op = "run" /\ ~call.file_line.given) =>
        \A A \in Operands :
            /\ call.filter_pattern = Pattern(NotPattern(A)) => RunAdmitted(HasNot(A))
            /\ \A B \in Operands :
                  call.filter_pattern = Pattern(AndPattern(A, B)) => RunAdmitted(HasBoth(A, B))

\* "a and X" has run the tests of context a named x, and not its other tests nor a
\* test x elsewhere
C11_Witness ==
    /\ call.op = "run" /\ ~call.file_line.given
    /\ call.filter_pattern = Pattern(AndPattern(<<"a">>, <<"X">>))
    /\ StartedTests = HasBoth(<<"a">>, <<"X">>)
    /\ StartedTests # {}
    /\ \E t \in AllTests \ StartedTests : NameHas(t, <<"a">>)
    /\ \E t \in AllTests \ StartedTests : ~NameHas(t, <<"a">>)

(***************************************************************************)
(* C12. Run with includeTags and excludeTags runs exactly the tests that   *)
(* carry a tag of includeTags (any test when includeTags is empty) and no  *)
(* tag of excludeTags, where a test carries the tags declared on it and on *)
(* its enclosing contexts. With includeTags = {unit} and excludeTags =     *)
(* {flaky} a test carrying {unit} is run, one carrying {unit, flaky} or    *)
(* {integration} is not.                                                   *)
(***************************************************************************)
Carried(t) ==
    declared_tags.test[t]
    \cup UNION {declared_tags.context[Chain(ContextOf(t))[i]] : i \in DOMAIN Chain(ContextOf(t))}
TagAdmitted ==
    {t \in AllTests :
        /\ call.include_tags = {} \/ Carried(t) \cap call.include_tags # {}
        /\ Carried(t) \cap call.exclude_tags = {}}

C12_TagFilter ==
    call.op = "run" =>
        /\ StartedTests = TagAdmitted
        /\ BodyCalledTests = TagAdmitted
        /\ \A t \in TagAdmitted : Len(RecordsOf(t)) = 1
        /\ (call.include_tags = {"unit"} /\ call.exclude_tags = {"flaky"}) =>
              \A t \in AllTests :
                  /\ Carried(t) = {"unit"} => Started(t)
                  /\ Carried(t) \in {{"unit", "flaky"}, {"integration"}} => ~Started(t)

\* run with includeTags = {unit} and excludeTags = {flaky} on tests carrying {unit},
\* {unit, flaky} (flaky from the enclosing context) and {integration}: the first has run
C12_Witness ==
    /\ call.op = "run"
    /\ call.include_tags = {"unit"} /\ call.exclude_tags = {"flaky"}
    /\ \E t1, t2, t3 \in AllTests :
         /\ Carried(t1) = {"unit"}
         /\ Carried(t2) = {"unit", "flaky"} /\ declared_tags.test[t2] = {"unit"}
         /\ Carried(t3) = {"integration"}
         /\ StartedTests = {t1}

(***************************************************************************)
(* Vocabulary of the properties of one run among several.                  *)
(***************************************************************************)
\* the calls made and the Result Records appended by the last run
LastLog == SubSeq(log, call.log_before + 1, Len(log))
LastResults == SubSeq(results, call.results_before + 1, Len(results))
\* the tests the last run started
LastStarted == {LastLog[i].test : i \in DOMAIN LastLog} \ {0}

RECURSIVE ExecutionOrder(_)
\* the tests below c: its own in declaration order, then those of its child contexts,
\* depth-first in declaration order
ExecutionOrder(c) ==
    tests[c] \o FlattenSeq([i \in DOMAIN children[c] |-> ExecutionOrder(children[c][i])])

NamesOf(ts) == [i \in DOMAIN ts |-> full_test_name(ContextOf(ts[i]), ts[i])]
\* names and passed flags of a list of Result Records
Content(rs) == [i \in DOMAIN rs |-> <<rs[i].name, rs[i].passed>>]

(***************************************************************************)
(* C13. After a run the Result Records it appended are one for every test  *)
(* it started, in execution order (a context's own tests in declaration    *)
(* order, then its child contexts depth-first), and the records that were  *)
(* in the list before the run are still there, unchanged.                  *)
(***************************************************************************)
C13_ResultList ==
    call.op = "run" =>
        /\ [i \in DOMAIN LastResults |-> LastResults[i].name] =
             NamesOf(SelectSeq(ExecutionOrder(Root), LAMBDA t : t \in LastStarted))
        /\ Len(returned) > 1 =>
             SubSeq(results, 1, call.results_before) = returned[Len(returned) - 1].results
        /\ returned[Len(returned)].results = results

\* a second run has appended the records of a root test, of a test of a context and of
\* a test of its child context, in that order, after the records of the first run
C13_Witness ==
    /\ call.op = "run" /\ Len(returned) = 2
    /\ call.results_before > 0
    /\ Len(LastResults) = 3
    /\ \E c \in Contexts \ {Root} :
         /\ parent[c] # Root
         /\ Range(tests[c]) \cap LastStarted # {}
         /\ Range(tests[parent[c]]) \cap LastStarted # {}
         /\ Range(tests[Root]) \cap LastStarted # {}
    /\ \E i \in DOMAIN LastResults : ~LastResults[i].passed

(***************************************************************************)
(* C14. Calling run twice with the same arguments on the same TestRunner   *)
(* and tree gives the same return value and, after the second run, a       *)
(* get_results() list with the same content (names and passed flags, in    *)
(* order) as after the first run.                                          *)
(***************************************************************************)
C14_RunIsIdempotent ==
    (/\ Len(returned) = 2
     /\ returned[1].file_line = returned[2].file_line
     /\ returned[1].filter_pattern = returned[2].filter_pattern) =>
        /\ returned[2].ret = returned[1].ret
        /\ Content(returned[2].results) = Content(returned[1].results)

(***************************************************************************)
(* Vocabulary of the properties of before_all and after_all hooks.         *)
(***************************************************************************)
\* the before_all or after_all hooks called for context c, in order
ContextCalls(c, kind) ==
    LET ev == SelectSeq(log, LAMBDA e : e.kind = kind /\ e.ctx = c /\ e.test = 0)
    IN [i \in DOMAIN ev |-> ev[i].fn]
\* the hooks of the contexts of S that were called, whatever their kind
HooksCalledOf(S) == {log[i].fn : i \in {j \in DOMAIN log : log[j].kind # "body" /\ log[j].fn[2] \in S}}
\* the contexts one of whose before_all hooks raised
Aborted == {c \in Contexts : \E i \in DOMAIN log :
                log[i].kind = "before_all" /\ log[i].ctx = c /\ log[i].raised}
\* the outcome the callables of test t give it: no before_each hook raises, nor the
\* body, nor an after_each hook
PassesAlone(t) ==
    /\ FirstRaising(BeforeEachRootToSelf(ContextOf(t))) = 0
    /\ Body(t) \notin raises
    /\ FirstRaising(AfterEachSelfToRoot(ContextOf(t))) = 0

(***************************************************************************)
(* C16. When a before_all hook of a context raises, the later before_all   *)
(* hooks of the context, its after_all hooks, every hook of a descendant   *)
(* context and every before_each hook, body and after_each hook of a test  *)
(* of the subtree are not called, and no Result Record is appended for a   *)
(* test of the subtree; every test outside the aborted subtrees is run and *)
(* gets its Result Record.                                                 *)
(***************************************************************************)
C16_BeforeAllAborts ==
    call.op = "run" =>
        /\ \A c \in Aborted :
              LET k == FirstRaising(before_all_hooks[c])
              IN /\ ContextCalls(c, "before_all") = SubSeq(before_all_hooks[c], 1, k)
                 /\ ContextCalls(c, "after_all") = <<>>
                 /\ \A d \in Subtree(c) \ {c} :
                       ContextCalls(d, "before_all") = <<>> /\ ContextCalls(d, "after_all") = <<>>
                 /\ \A t \in TestsUnder(c) : ~Started(t) /\ RecordsOf(t) = <<>>
        /\ \A t \in AllTests :
              (\A c \in Aborted : t \notin TestsUnder(c)) =>
                  /\ Started(t) /\ Len(RecordsOf(t)) = 1
                  /\ ContextCalls(ContextOf(t), "before_all") = before_all_hooks[ContextOf(t)]
                  /\ ContextCalls(ContextOf(t), "after_all") = after_all_hooks[ContextOf(t)]

\* the first before_all hook of a context with a test and a child context with a test
\* has raised; a test of the root and a test of a sibling context have run
C16_Witness ==
    /\ call.op = "run"
    /\ \E c \in Aborted \ {Root} :
         /\ FirstRaising(before_all_hooks[c]) = 1
         /\ Len(before_all_hooks[c]) > 1
         /\ tests[c] # <<>>
         /\ \E d \in Subtree(c) \ {c} : tests[d] # <<>>
         /\ \E t \in TestsUnder(c) : Body(t) \in raises
         /\ \E t \in Range(tests[Root]) : BodyCalled(t)
         /\ call.ret = TRUE

(***************************************************************************)
(* C17. A context whose subtree holds no admitted test is skipped: none of *)
(* the before_all, after_all, before_each and after_each hooks of the      *)
(* context and of its descendants is called during the run.                *)
(***************************************************************************)
Admitted ==
    IF PatternUsed /\ FileLineUsed THEN PatternAdmitted \cap LocationAdmitted
    ELSE IF PatternUsed THEN PatternAdmitted
    ELSE IF FileLineUsed THEN LocationAdmitted
    ELSE AllTests

C17_SkippedContext ==
    (call.op = "run" /\ (call.file_line.given => FileLineUsed)) =>
        \A c \in Contexts :
            TestsUnder(c) \cap Admitted = {} => HooksCalledOf(Subtree(c)) = {}

\* a filter has left a context with tests, and its child context with tests, without an
\* admitted test, while a test elsewhere has run with its hooks
C17_Witness ==
    /\ call.op = "run" /\ (PatternUsed \/ FileLineUsed)
    /\ \E c \in Contexts \ {Root} :
         /\ tests[c] # <<>>
         /\ \E d \in Subtree(c) \ {c} : tests[d] # <<>>
         /\ TestsUnder(c) \cap Admitted = {}
         /\ HooksCalledOf(Subtree(c)) = {}
    /\ BodyCalledTests # {}
    /\ HooksCalledOf({Root}) # {}

(***************************************************************************)
(* C18. When an after_all hook raises, every after_all hook of its context *)
(* is still called, in order; every Result Record is the one its test's    *)
(* own before_each hooks, body and after_each hooks give it; the counts    *)
(* are those of the records; and run returns True iff no record failed.    *)
(***************************************************************************)
C18_AfterAllFailure ==
    (/\ call.op = "run"
     /\ \E i \in DOMAIN log : log[i].kind = "after_all" /\ log[i].raised) =>
        /\ \A c \in Contexts :
              ContextCalls(c, "after_all") # <<>> =>
                  ContextCalls(c, "after_all") = after_all_hooks[c]
        /\ \A t \in StartedTests :
              /\ Len(RecordsOf(t)) = 1
              /\ RecordsOf(t)[1].passed = PassesAlone(t)
        /\ Len(results) = Cardinality(StartedTests)
        /\ call.passed = Cardinality({t \in StartedTests : PassesAlone(t)})
        /\ call.failed = Cardinality({t \in StartedTests : ~PassesAlone(t)})
        /\ call.ret = (\A t \in StartedTests : PassesAlone(t))

\* the first after_all hook of a context raised after its tests had passed: the next
\* hook was called and run returned True
C18_Witness ==
    /\ call.op = "run"
    /\ \E c \in Contexts \ {Root} :
         /\ tests[c] # <<>>
         /\ after_all_hooks[c][1] \in raises
         /\ Len(after_all_hooks[c]) > 1
         /\ ContextCalls(c, "after_all") = after_all_hooks[c]
         /\ after_all_hooks[Root][1] \in raises
    /\ StartedTests = AllTests
    /\ call.ret = TRUE
    /\ call.passed = Cardinality(AllTests)

(***************************************************************************)
(* Vocabulary of the registration properties.                              *)
(***************************************************************************)
RECURSIVE JoinNames(_)
\* names joined by " > "
JoinNames(names) ==
    IF names = <<>> THEN <<>>
    ELSE IF Len(names) = 1 THEN names[1]
    ELSE names[1] \o <<" ", ">", " ">> \o JoinNames(Tail(names))

\* the names of the contexts from the root down to c, the empty ones left out
NonEmptyNames(c) ==
    SelectSeq([i \in DOMAIN Chain(c) |-> ctxName[Chain(c)[i]]], LAMBDA name : name # <<>>)

RegistrationOps == {"add_test", "before_all", "after_all", "before_each", "after_each"}

\* the contexts of the open describe blocks, the outermost first
OpenContexts == [i \in DOMAIN scopes |-> scopes[i].context]

(***************************************************************************)
(* C15. The full_name of every registered context is the names of its      *)
(* ancestors from the root down and its own name, the empty ones left out, *)
(* joined by " > ".                                                        *)
(***************************************************************************)
C15_FullName ==
    \A c \in Contexts : full_name(c) = JoinNames(NonEmptyNames(c))

(***************************************************************************)
(* C19. A hook or a test registered while no describe block is open raises *)
(* at once and is attached to no context: the root never holds a test or a *)
(* hook.                                                                   *)
(***************************************************************************)
C19_MisuseRaises ==
    /\ (call.op \in RegistrationOps /\ scopes = <<>>) => call.raised
    /\ tests[Root] = <<>>
    /\ before_all_hooks[Root] = <<>> /\ after_all_hooks[Root] = <<>>
    /\ before_each_hooks[Root] = <<>> /\ after_each_hooks[Root] = <<>>

(***************************************************************************)
(* C20. The current context is the context of the innermost open describe  *)
(* block, the root when none is open, and the open blocks are the chain    *)
(* from the root down to it; leaving a block, by the end of its body or by *)
(* an exception, makes current the context that was current when it was    *)
(* opened; a context is created as the last child of the context that was  *)
(* current then, and is in the children of no other context; children are  *)
(* in declaration order.                                                   *)
(***************************************************************************)
C20_StackDiscipline ==
    /\ current_context = IF scopes = <<>> THEN Root ELSE scopes[Len(scopes)].context
    /\ OpenContexts = Tail(Chain(current_context))
    /\ call.op = "exit" => current_context = parent[call.context]
    /\ call.op = "describe" =>
          /\ parent[call.context] =
                IF Len(scopes) = 1 THEN Root ELSE scopes[Len(scopes) - 1].context
          /\ children[parent[call.context]][Len(children[parent[call.context]])] = call.context
    /\ \A c \in Contexts \ {Root} :
          \A d \in Contexts : (c \in Range(children[d])) = (d = parent[c])
    /\ \A c \in Contexts :
          \A i, j \in DOMAIN children[c] : i < j => children[c][i] < children[c][j]

\* a describe block nested in another was left by an exception after a first nested
\* block had been left normally: the outer context, with its two children, is current
C20_Witness ==
    /\ call.op = "exit" /\ call.raised
    /\ scopes # <<>>
    /\ current_context # Root
    /\ Len(children[current_context]) = 2
    /\ call.context = children[current_context][2]
    /\ tests[current_context] # <<>>

(***************************************************************************)
(* C25. For every test that was started, all its effective after_each      *)
(* hooks (its context's, then each ancestor's up to the root) are called,  *)
(* in order, once each, whether a before_each hook, the body or an         *)
(* earlier after_each hook raised; and every test outside the subtrees     *)
(* aborted by a before_all failure is started, whatever raised in an       *)
(* after_each hook before it.                                              *)
(***************************************************************************)
C25_AfterEachAlwaysRuns ==
    call.op = "run" =>
        /\ \A t \in StartedTests :
              CallsOfKind(t, "after_each") = AfterEachSelfToRoot(ContextOf(t))
        /\ \A t \in AllTests :
              (\A c \in Aborted : t \notin TestsUnder(c)) => Started(t)

\* the first test of a context: one of its before_each hooks raised, then its first
\* after_each hook raised; its other after_each hooks, the next test of the context
\* and a test of a child context have run all the same
C25_Witness ==
    /\ call.op = "run"
    /\ \E c \in Contexts \ {Root} :
         /\ Len(tests[c]) > 1
         /\ FirstRaising(BeforeEachRootToSelf(c)) # 0
         /\ FirstRaising(AfterEachSelfToRoot(c)) = 1
         /\ ~BodyCalled(tests[c][1])
         /\ CallsOfKind(tests[c][1], "after_each") = AfterEachSelfToRoot(c)
         /\ Started(tests[c][2])
         /\ \E d \in Subtree(c) \ {c} : \E t \in Range(tests[d]) : Started(t)

(***************************************************************************)
(* C26. A pattern is split on " and " first, then each part on " or ",     *)
(* then a leading "not " is applied: run with "A or B and C" admits        *)
(* exactly the tests whose full name contains C and one of A and B; run    *)
(* with "not A and B" admits exactly those whose name contains B and not   *)
(* A; in "A not B" the word not is no operator: the pattern is the         *)
(* substring "A not B".                                                    *)
(***************************************************************************)
HasOrAnd(A, B, C) == {t \in AllTests : (NameHas(t, A) \/ NameHas(t, B)) /\ NameHas(t, C)}
HasNotAnd(A, B) == {t \in AllTests : ~NameHas(t, A) /\ NameHas(t, B)}

C26_PatternPrecedence ==
    (call.op = "run" /\ ~call.file_line.given) =>
        /\ \A abc \in OrAndOperands :
              call.filter_pattern = Pattern(OrAndPattern(abc[1], abc[2], abc[3])) =>
                  RunAdmitted(HasOrAnd(abc[1], abc[2], abc[3]))
        /\ \A A, B \in Operands :
              call.filter_pattern = Pattern(AndPattern(NotPattern(A), B)) =>
                  RunAdmitted(HasNotAnd(A, B))
        /\ call.filter_pattern = Pattern(InfixNotPattern(<<"X">>, <<"a">>)) =>
              RunAdmitted({t \in AllTests : NameHas(t, InfixNotPattern(<<"X">>, <<"a">>))})

\* "X or y and a" has run test y of context a and not the test x of the root
C26_Witness ==
    /\ call.op = "run" /\ ~call.file_line.given
    /\ call.filter_pattern = Pattern(OrAndPattern(<<"X">>, <<"y">>, <<"a">>))
    /\ StartedTests = HasOrAnd(<<"X">>, <<"y">>, <<"a">>)
    /\ StartedTests # {}
    /\ \E t \in AllTests \ StartedTests : NameHas(t, <<"X">>)

(***************************************************************************)
(* C27. For every run, passed + failed equals the number of Result Records *)
(* the run appended, passed is the number of those with passed = True,     *)
(* failed the number of the others, and passed + failed is at most the     *)
(* total of admitted tests, equal to it when no before_all hook raised.    *)
(***************************************************************************)
LastBeforeAllFailed ==
    \E i \in DOMAIN LastLog : LastLog[i].kind = "before_all" /\ LastLog[i].raised

C27_Accounting ==
    call.op = "run" =>
        /\ call.passed + call.failed = Len(LastResults)
        /\ call.passed = Cardinality({i \in DOMAIN LastResults : LastResults[i].passed})
        /\ call.failed = Cardinality({i \in DOMAIN LastResults : ~LastResults[i].passed})
        /\ call.passed + call.failed <= call.total
        /\ ~LastBeforeAllFailed => call.passed + call.failed = call.total

\* a second run on the same runner: a test of a child context failed, another passed,
\* and a before_all failure left the counts below the total
C27_Witness ==
    /\ call.op = "run" /\ Len(returned) = 2
    /\ call.results_before > 0
    /\ call.passed > 0
    /\ call.passed + call.failed < call.total
    /\ LastBeforeAllFailed
    /\ \E t \in LastStarted : ContextOf(t) # Root

(***************************************************************************)
(* C28. Within a run each before_all hook of a context is called at most   *)
(* once, and before every before_each hook and test body of the tests of   *)
(* its subtree; each after_all hook is called at most once, after every    *)
(* call made for a test of its subtree, and only if every before_all hook  *)
(* of the context and of its ancestors was called and none raised.         *)
(***************************************************************************)
\* the places in the log of the calls made for the tests below c
TestCallsUnder(c) == {j \in DOMAIN log : log[j].test \in TestsUnder(c)}
\* the places in the log of the calls of the hooks of one kind of context c
ContextCallsAt(c, kind) ==
    {j \in DOMAIN log : log[j].kind = kind /\ log[j].ctx = c /\ log[j].test = 0}

C28_Bracketing ==
    call.op = "run" =>
        \A c \in Contexts :
            \A before \in {ContextCallsAt(c, "before_all")},
               after \in {ContextCallsAt(c, "after_all")},
               between \in {TestCallsUnder(c)} :
                /\ \A j, k \in before : log[j].fn = log[k].fn => j = k
                /\ \A j, k \in after : log[j].fn = log[k].fn => j = k
                /\ \A j \in before : \A k \in between : j < k
                /\ \A j \in after : \A k \in between : k < j
                /\ after # {} =>
                      \A i \in DOMAIN Chain(c) :
                          /\ ContextCalls(Chain(c)[i], "before_all") = before_all_hooks[Chain(c)[i]]
                          /\ FirstRaising(before_all_hooks[Chain(c)[i]]) = 0

\* three nested contexts with a test each have run: the after_all hooks of the
\* outermost came after the calls for the innermost test
C28_Witness ==
    /\ call.op = "run"
    /\ \E c \in Contexts \ {Root} :
         /\ parent[c] # Root /\ parent[parent[c]] = Root
         /\ tests[c] # <<>> /\ tests[parent[c]] # <<>> /\ tests[Root] # <<>>
         /\ StartedTests = AllTests
         /\ ContextCalls(parent[c], "after_all") = after_all_hooks[parent[c]]
         /\ ContextCalls(Root, "after_all") = after_all_hooks[Root]
         /\ \E i \in DOMAIN log : log[i].kind = "after_all" /\ log[i].raised

(***************************************************************************)
(* C29. The tests of a subtree aborted by a before_all failure are counted *)
(* neither as passed nor as failed: the counts are those of the tests that *)
(* were started, and run returns True iff every started test passed.       *)
(***************************************************************************)
C29_AbortedNotCounted ==
    (call.op = "run" /\ Aborted # {}) =>
        /\ \A c \in Aborted : \A t \in TestsUnder(c) : ~Started(t) /\ RecordsOf(t) = <<>>
        /\ call.passed = Cardinality({t \in StartedTests : PassesAlone(t)})
        /\ call.failed = Cardinality({t \in StartedTests : ~PassesAlone(t)})
        /\ call.ret = (\A t \in StartedTests : PassesAlone(t))

\* a before_all hook of a context with tests raised, a test elsewhere passed, and run
\* returned True with fewer tests counted than registered
C29_Witness ==
    /\ call.op = "run"
    /\ \E c \in Aborted \ {Root} : TestsUnder(c) # {}
    /\ StartedTests # {}
    /\ call.ret = TRUE
    /\ call.passed + call.failed < call.total

(***************************************************************************)
(* Vocabulary of the location properties.                                  *)
(***************************************************************************)
Found == call.op = "find"
TargetFile == normalize_path(call.file)
\* the contexts and the tests declared in the target file
ContextsInFile == {c \in Contexts : ctxFile[c] # NoFile /\ normalize_path(ctxFile[c]) = TargetFile}
TestsInFile == {t \in AllTests : testFile[t] # NoFile /\ normalize_path(testFile[t]) = TargetFile}
ContextsAtTarget == {c \in ContextsInFile : ctxLine[c] = call.line}

RECURSIVE Preorder(_)
\* the contexts below c, c first, depth-first in declaration order
Preorder(c) == <<c>> \o FlattenSeq([i \in DOMAIN children[c] |-> Preorder(children[c][i])])

\* c comes before d in depth-first declaration order
Before(c, d) ==
    \E i, j \in DOMAIN Preorder(Root) :
        i < j /\ Preorder(Root)[i] = c /\ Preorder(Root)[j] = d

C9_ContextRule ==
    Found => \A c \in ContextsAtTarget : call.found = TestsUnder(c)

(***************************************************************************)
(* C9 amended. When the target line is the declaration line of contexts of *)
(* the target file, _find_tests_at_line admits every test of the first of  *)
(* them in depth-first declaration order and of its descendants, and no    *)
(* test outside that subtree.                                              *)
(***************************************************************************)
C9_FirstContextRule ==
    Found =>
        \A c \in ContextsAtTarget :
            (\A d \in ContextsAtTarget \ {c} : Before(c, d)) => call.found = TestsUnder(c)

\* the target is the line of a context that holds a test, has a child context with a
\* test, and leaves a test outside
C9_Witness ==
    /\ Found
    /\ \E c \in ContextsAtTarget :
        /\ \A d \in ContextsAtTarget \ {c} : Before(c, d)
        /\ tests[c] # <<>>
        /\ \E d \in Subtree(c) \ {c} : tests[d] # <<>>
        /\ AllTests \ TestsUnder(c) # {}
        /\ call.found = TestsUnder(c)

(***************************************************************************)
(* C10. When the target line is after the declaration line of a describe   *)
(* block and before the first test declared in it, is no context's         *)
(* declaration line, and the block is the innermost one around the line    *)
(* (no other context of the file is declared between the block's line and  *)
(* the target), _find_tests_at_line admits all tests of that block, also   *)
(* when the block is declared after earlier tests of the file.             *)
(***************************************************************************)
C10_InsideBlockRule ==
    Found =>
        \A c \in ContextsInFile :
            (/\ ContextsAtTarget = {}
             /\ ctxLine[c] < call.line
             /\ TestsUnder(c) # {}
             /\ TestsUnder(c) \subseteq TestsInFile
             /\ \A t \in TestsUnder(c) : call.line < testLine[t]
             /\ \A d \in ContextsInFile \ {c} :
                    ctxLine[d] < ctxLine[c] \/ call.line < ctxLine[d]) =>
                call.found = TestsUnder(c)

(***************************************************************************)
(* Vocabulary of the mock properties.                                      *)
(***************************************************************************)
\* the open mock_zig_function contexts for name
OpenMocksOf(name) == {i \in OpenMocks : mock_contexts[i].name = name}

\* the library function itself, as get_function returns it for a name that is not mocked
LibraryFunction(name) == <<"library function", name>>

(***************************************************************************)
(* C21. After a mock_zig_function(name) context exits, normally or by an   *)
(* exception, the name is no longer mocked: is_mocked(name) is false and   *)
(* get_function(name, ...) returns the library function, not a             *)
(* MockFunction. So a name is mocked only while a context for it is open,  *)
(* and a lookup made while none is open returns the library function.      *)
(***************************************************************************)
C21_Unmocked ==
    /\ call.op = "mock_zig_function_exit" =>
          /\ ~is_mocked(call.name)
          /\ get_function(call.name).ret = LibraryFunction(call.name)
    /\ \A name \in FunctionNames : is_mocked(name) => OpenMocksOf(name) # {}
    /\ (call.op = "get_function" /\ OpenMocksOf(call.name) = {}) =>
          call.ret = LibraryFunction(call.name)

\* a context whose mock was called is left by an exception of its body
C21_Witness ==
    /\ call.op = "mock_zig_function_exit"
    /\ call.exc
    /\ mock_contexts[call.context].config.call_count > 0
    /\ ~is_mocked(call.name)

(***************************************************************************)
(* C22. For a mock with a non-empty returns_sequence of length n and no    *)
(* side_effect, the k-th call returns the k-th element for k <= n and the  *)
(* last element for k > n. Every call, whatever the return strategy,       *)
(* increments call_count by one and appends one MockCall: call_count is    *)
(* the length of calls, and the number of calls made.                      *)
(***************************************************************************)
C22_ReturnsSequence ==
    \A i \in DOMAIN mock_contexts :
        \A config \in {mock_contexts[i].config}, rets \in {mock_contexts[i].returned} :
            /\ config.call_count = Len(config.calls)
            /\ config.call_count = Len(rets)
            /\ (/\ config.side_effect = None
                /\ config.returns_sequence # NoSequence
                /\ config.returns_sequence # <<>>) =>
                  \A k \in DOMAIN rets :
                      /\ ~rets[k].raised
                      /\ rets[k].ret =
                            config.returns_sequence[IF k <= Len(config.returns_sequence)
                                                    THEN k
                                                    ELSE Len(config.returns_sequence)]

\* a mock with a sequence of two values is called a third time
C22_Witness ==
    \E i \in DOMAIN mock_contexts :
        /\ mock_contexts[i].config.side_effect = None
        /\ mock_contexts[i].config.returns_sequence = <<"v1", "v2">>
        /\ Len(mock_contexts[i].returned) = 3
        /\ mock_contexts[i].returned[3].ret = "v2"

(***************************************************************************)
(* C30. Mock scoping under nesting, two nested contexts for the same name  *)
(* included: a name is mocked, and served by the configuration of the      *)
(* innermost open context for it, wherever a context for it is open; and   *)
(* leaving a context restores the registry entry that was in place when it *)
(* was entered.                                                            *)
(***************************************************************************)
C30_NestedScoping ==
    /\ \A name \in FunctionNames :
          OpenMocksOf(name) # {} =>
              /\ is_mocked(name)
              /\ \A j \in OpenMocksOf(name) : j <= get_mock_config(name)
              /\ get_mock_config(name) \in OpenMocksOf(name)
    /\ call.op = "mock_zig_function_exit" =>
          get_mock_config(call.name) = mock_contexts[call.context].replaced

(***************************************************************************)
(* Vocabulary of the factory properties.                                   *)
(***************************************************************************)
\* the n-th build since reset_sequences
NthBuild(n) == since_reset.builds[n]

\* what build_batch(count) returned and did to the sequences
BatchReturnsCount ==
    call.op = "build_batch" =>
        /\ Len(call.ret) = call.count
        /\ \A f \in SequenceFields : counter[f] = call.counter_before[f] + call.count

EarlierMatches(i) ==
    {j \in 1..(i - 1) : /\ matches[j].test_file = matches[i].test_file
                        /\ matches[j].key = matches[i].key}

\* the last of them
PreviousMatch(i) == CHOOSE j \in EarlierMatches(i) : \A k \in EarlierMatches(i) : k <= j

\* the snapshots of a test file as the manager holds them, and as they are on disk
Held(test_file) == GetItem(_snapshots, test_file, EmptyDict)
OnDisk(test_file) == GetItem(snapshot_files, _get_snapshot_file(test_file), EmptyDict)

====
